---- MODULE Spec2Model ----
(***************************************************************************)
(* A model of @mindstate/sdk: the sealing / verification pipeline, the     *)
(* key-delivery providers, the publisher key manager and the publish /     *)
(* consume orchestration of MindstateClient and MindstateRegistryClient.   *)
(*                                                                         *)
(* Byte strings are modelled structurally.  Every byte string that can end *)
(* up in storage has the one record shape built by B(...), so that any two *)
(* of them can be compared.  keccak256 is modelled as a collision-free     *)
(* function (the digest records its pre-image); AES-256-GCM and NaCl box   *)
(* are modelled as ideal authenticated ciphers; random draws (content key, *)
(* IV, box nonce) are modelled as fresh values, numbered by the call that  *)
(* draws them.                                                             *)
(***************************************************************************)
EXTENDS Naturals, Integers, Sequences, FiniteSets, TLC

(***************************************************************************)
(* Bounds of the model.                                                    *)
(***************************************************************************)
\* number of distinct payload keys a capsule may use
MaxKeys == 2
\* number of publish invocations over a behaviour
MaxPublishes == 1
\* number of redeem calls consume may issue over a behaviour
MaxRedeemCalls == 2
\* number of fulfillRedemption calls over a behaviour
MaxFulfills == 1
\* tokens the consumer may hold initially (redeem burns one)
MaxBalance == 1
\* the longest sequence given to verifyCheckpointLineage
MaxChain == 3
\* the distinct checkpoint identifiers a lineage input or record source uses
MaxIds == 2
\* the largest maxDepth getLineage is called with
MaxDepth == 3
\* characters of an identifier string given to computeEnvelopeId
MaxIdChars == 2
\* bytes in a field of an envelope given to serializeEnvelope
MaxEnvelopeBytes == 2
\* storeEnvelope calls made on the publisher's StorageKeyDelivery directly
MaxStored == 2

(***************************************************************************)
(* Program constants.                                                      *)
(***************************************************************************)
IV_LENGTH == 12
AUTH_TAG_LENGTH == 16
KEY_LENGTH == 32
\* consumerPublicKey.length !== 32 in fulfillRedemption
PUBLIC_KEY_LENGTH == 32

(***************************************************************************)
(* Identifiers (addresses, checkpoint ids): a hex string, abstracted to    *)
(* the value it spells and whether it is written with upper-case letters.  *)
(***************************************************************************)
MkId(n) == [n |-> n, upper |-> FALSE]
EmptyId == MkId(0)
toLowerCase(s) == [s EXCEPT !.upper = FALSE]

(***************************************************************************)
(* Hex strings: an optional "0x" prefix and a sequence of digits 0..15.    *)
(***************************************************************************)
EmptyHex == [pfx |-> FALSE, digits |-> <<>>]

RECURSIVE HexDigits(_)
HexDigits(bytes) ==
    IF bytes = <<>> THEN <<>>
    ELSE <<Head(bytes) \div 16, Head(bytes) % 16>> \o HexDigits(Tail(bytes))

RECURSIVE HexDigitsUnpadded(_)
HexDigitsUnpadded(bytes) ==
    IF bytes = <<>> THEN <<>>
    ELSE (IF Head(bytes) < 16 THEN <<Head(bytes)>>
          ELSE <<Head(bytes) \div 16, Head(bytes) % 16>>)
             \o HexDigitsUnpadded(Tail(bytes))

\* mutant: a byte under 16 is written as one digit (no padStart)
toHexUnpadded(bytes) == [pfx |-> TRUE, digits |-> HexDigitsUnpadded(bytes)]

\* toHex: "0x" followed by two lower-case digits per byte
toHex(bytes) == [pfx |-> TRUE, digits |-> HexDigits(bytes)]

\* a character of a hex string that is not a hex digit
NotHex == 16

\* parseInt(two characters, 16) stored in a Uint8Array: parseInt reads the
\* leading hex digits, and NaN is stored as 0
parseHexPair(hi, lo) ==
    IF hi = NotHex THEN 0
    ELSE IF lo = NotHex THEN hi
    ELSE hi * 16 + lo

\* mutant: the two digits of a byte read low nibble first
fromHexSwapped(hex) ==
    [i \in 1..(Len(hex.digits) \div 2) |->
        hex.digits[2 * i] * 16 + hex.digits[2 * i - 1]]

\* fromHex: strips "0x", then reads clean.length / 2 bytes, two characters
\* each, through parseInt
fromHex(hex) ==
    [i \in 1..(Len(hex.digits) \div 2) |->
        parseHexPair(hex.digits[2 * i - 1], hex.digits[2 * i])]

(***************************************************************************)
(* Keys.  A content key or a box key is an identity and a byte length.     *)
(* The X25519 public key of secret key s is PublicKeyOf(s); the shared     *)
(* secret of (pk, sk) is the unordered pair of the two secret identities.  *)
(***************************************************************************)
MkKey(id) == [id |-> id, len |-> KEY_LENGTH]
PublicKeyOf(sk) == [id |-> sk.id, len |-> PUBLIC_KEY_LENGTH]
SharedSecret(pk, sk) ==
    IF pk.id <= sk.id THEN <<pk.id, sk.id>> ELSE <<sk.id, pk.id>>
KeyBytes(k) == <<k.id, k.len>>
KeyFromBytes(b) == [id |-> b[1], len |-> b[2]]

(***************************************************************************)
(* Key envelopes.                                                          *)
(***************************************************************************)
NoEnvelope ==
    [checkpointId |-> EmptyId, wrappedKey |-> <<>>, nonce |-> <<>>,
     senderPublicKey |-> <<>>]
NoEnvelopeJson ==
    [checkpointId |-> EmptyId, wrappedKey |-> EmptyHex, nonce |-> EmptyHex,
     senderPublicKey |-> EmptyHex]

(***************************************************************************)
(* Byte strings.  kind is "json" (canonical capsule JSON), "sealed"        *)
(* (IV || ciphertext || tag), "envelope" (envelope JSON), "index" (index   *)
(* JSON), "raw" (payload zero bytes and nothing else), "junk" (the empty   *)
(* byte string) or "zero" (no byte string: the pre-image of the all-zero   *)
(* digest).                                                                *)
(***************************************************************************)
B(kind, version, payload, iv, key, env, idx) ==
    [kind |-> kind, version |-> version, payload |-> payload, iv |-> iv,
     key |-> key, env |-> env, idx |-> idx]
NoKey == [id |-> 0, len |-> 0]
JsonBytes(version, payload) ==
    B("json", version, payload, 0, NoKey, NoEnvelopeJson, {})
SealedBytes(iv, key, plaintext) ==
    B("sealed", plaintext.version, plaintext.payload, iv, key, NoEnvelopeJson, {})
EnvelopeBytes(json) == B("envelope", "", <<>>, 0, NoKey, json, {})
IndexBytes(entries) == B("index", "", <<>>, 0, NoKey, NoEnvelopeJson, entries)
JunkBytes == B("junk", "", <<>>, 0, NoKey, NoEnvelopeJson, {})
ZeroPreimage == B("zero", "", <<>>, 0, NoKey, NoEnvelopeJson, {})
RawBytes(n) ==
    B("raw", "", [i \in 1..n |-> 0], 0, NoKey, NoEnvelopeJson, {})
ByteLength(b) ==
    IF b.kind = "junk" THEN 0
    ELSE IF b.kind = "raw" THEN Len(b.payload)
    ELSE IV_LENGTH + AUTH_TAG_LENGTH + Len(b.payload)

(***************************************************************************)
(* Results of operations that may throw: ok, the error thrown, the value.  *)
(***************************************************************************)
Ok(v) == [ok |-> TRUE, err |-> "", val |-> v]
Err(e, default) == [ok |-> FALSE, err |-> e, val |-> default]

(***************************************************************************)
(* Capsules and canonical serialization (capsule.ts).  A payload is the    *)
(* sequence of its (key, value) pairs in insertion order; keys are named   *)
(* by their rank in the canonical key order.                               *)
(***************************************************************************)
MkCapsule(version, payload) ==
    [version |-> version, hasPayload |-> TRUE, payload |-> payload]
NoCapsule == [version |-> "", hasPayload |-> FALSE, payload |-> <<>>]

RemoveAt(s, i) == SubSeq(s, 1, i - 1) \o SubSeq(s, i + 1, Len(s))

\* mutant: only the keys of the outermost object are sorted
RECURSIVE SortByKeyShallow(_)
SortByKeyShallow(pairs) ==
    IF pairs = <<>> THEN <<>>
    ELSE LET m == CHOOSE i \in DOMAIN pairs :
                      \A j \in DOMAIN pairs : pairs[i][1] <= pairs[j][1]
         IN  <<pairs[m]>> \o SortByKeyShallow(RemoveAt(pairs, m))
\* a member whose value is itself an object is <<key, members, "object">>
RECURSIVE SortByKey(_)
SortByKey(pairs) ==
    IF pairs = <<>> THEN <<>>
    ELSE LET m == CHOOSE i \in DOMAIN pairs :
                      \A j \in DOMAIN pairs : pairs[i][1] <= pairs[j][1]
             least == IF Len(pairs[m]) = 3
                      THEN <<pairs[m][1], SortByKey(pairs[m][2]), "object">>
                      ELSE pairs[m]
         IN  <<least>> \o SortByKey(RemoveAt(pairs, m))

\* canonicalize + TextEncoder: RFC 8785 JSON, object keys sorted
canonicalBytes(value) == JsonBytes(value.version, SortByKey(value.payload))

\* assertValidCapsule: "" when valid, else the message thrown
assertValidCapsule(c) ==
    IF c.version = "" THEN "capsule.version must be a non-empty string"
    ELSE IF ~c.hasPayload THEN "capsule.payload must be a non-null object"
    ELSE ""

serializeCapsule(capsule) ==
    IF assertValidCapsule(capsule) # ""
    THEN Err(assertValidCapsule(capsule), JunkBytes)
    ELSE Ok(canonicalBytes(capsule))

\* JSON.parse of the decoded bytes, then assertValidCapsule
deserializeCapsule(bytes) ==
    IF bytes.kind \in {"sealed", "junk", "zero"}
    THEN Err("failed to parse capsule bytes as JSON", NoCapsule)
    ELSE IF bytes.kind # "json"
    THEN Err("capsule.version must be a non-empty string", NoCapsule)
    ELSE IF assertValidCapsule(MkCapsule(bytes.version, bytes.payload)) # ""
    THEN Err(assertValidCapsule(MkCapsule(bytes.version, bytes.payload)), NoCapsule)
    ELSE Ok(MkCapsule(bytes.version, bytes.payload))

\* deep equality of two capsules as JavaScript objects (key order ignored)
SameCapsule(a, b) ==
    /\ a.version = b.version
    /\ a.hasPayload = b.hasPayload
    /\ {a.payload[i] : i \in DOMAIN a.payload} = {b.payload[i] : i \in DOMAIN b.payload}

(***************************************************************************)
(* Commitments (commitment.ts).  A digest is its pre-image and the case    *)
(* its hex text is written in.                                             *)
(***************************************************************************)
ZERO_BYTES32 == [pre |-> ZeroPreimage, upper |-> FALSE]
hashBytes(data) == [pre |-> data, upper |-> FALSE]
computeStateCommitment(capsule) == hashBytes(serializeCapsule(capsule).val)
computeCiphertextHash(ciphertext) == hashBytes(ciphertext)

(***************************************************************************)
(* Content encryption and key wrapping (encryption.ts).  The IV and the    *)
(* box nonce, drawn at random by the code, are parameters here.            *)
(***************************************************************************)
\* mutant: every call uses the same IV
encryptFixedIv(plaintext, key, iv) ==
    IF key.len # KEY_LENGTH
    THEN Err("encryption key must be 32 bytes", JunkBytes)
    ELSE Ok(SealedBytes(0, key, plaintext))
encrypt(plaintext, key, iv) ==
    IF key.len # KEY_LENGTH
    THEN Err("encryption key must be 32 bytes", JunkBytes)
    ELSE Ok(SealedBytes(iv, key, plaintext))

\* mutant: the length of the input is left to the cipher
decryptAnyLength(sealed, key) ==
    IF key.len # KEY_LENGTH
    THEN Err("decryption key must be 32 bytes", JunkBytes)
    ELSE IF sealed.kind # "sealed" \/ sealed.key # key
    THEN Err("AES-256-GCM decryption failed", JunkBytes)
    ELSE Ok(JsonBytes(sealed.version, sealed.payload))
decrypt(sealed, key) ==
    IF key.len # KEY_LENGTH
    THEN Err("decryption key must be 32 bytes", JunkBytes)
    ELSE IF ByteLength(sealed) < IV_LENGTH + AUTH_TAG_LENGTH
    THEN Err("sealed data too short", JunkBytes)
    ELSE IF sealed.kind # "sealed" \/ sealed.key # key
    THEN Err("AES-256-GCM decryption failed", JunkBytes)
    ELSE Ok(JsonBytes(sealed.version, sealed.payload))

\* nacl.box: the message, bound to the nonce and to the shared secret
wrapKey(contentKey, recipientPublicKey, senderSecretKey, nonce) ==
    [checkpointId |-> EmptyId,
     wrappedKey |-> KeyBytes(contentKey) \o <<nonce>>
                        \o SharedSecret(recipientPublicKey, senderSecretKey),
     nonce |-> <<nonce>>,
     senderPublicKey |-> KeyBytes(PublicKeyOf(senderSecretKey))]

\* mutant: the shared secret is not part of what is authenticated
unwrapKeyAnyRecipient(envelope, recipientSecretKey) ==
    IF Len(envelope.wrappedKey) # 5
    THEN Err("NaCl box decryption failed", NoKey)
    ELSE Ok(KeyFromBytes(envelope.wrappedKey))
\* nacl.box.open: throws on a bad key or nonce size, null on a failed tag
unwrapKey(envelope, recipientSecretKey) ==
    IF Len(envelope.senderPublicKey) # 2
            \/ envelope.senderPublicKey[2] # PUBLIC_KEY_LENGTH
    THEN Err("bad public key size", NoKey)
    ELSE IF recipientSecretKey.len # KEY_LENGTH
    THEN Err("bad secret key size", NoKey)
    ELSE IF Len(envelope.nonce) # 1
    THEN Err("bad nonce size", NoKey)
    ELSE IF Len(envelope.wrappedKey) # 5
            \/ envelope.wrappedKey[3] # envelope.nonce[1]
            \/ <<envelope.wrappedKey[4], envelope.wrappedKey[5]>>
                 # SharedSecret(KeyFromBytes(envelope.senderPublicKey), recipientSecretKey)
    THEN Err("NaCl box decryption failed", NoKey)
    ELSE Ok(KeyFromBytes(envelope.wrappedKey))

(***************************************************************************)
(* Envelope identifier and codec (keyDelivery.ts).                         *)
(***************************************************************************)
\* mutant: the three parts enter the pre-image as they are spelled
computeEnvelopeIdAsSpelled(tokenAddress, checkpointId, consumerAddress) ==
    [token |-> tokenAddress, checkpoint |-> checkpointId,
     consumer |-> consumerAddress]

computeEnvelopeId(tokenAddress, checkpointId, consumerAddress) ==
    [token |-> toLowerCase(tokenAddress),
     checkpoint |-> toLowerCase(checkpointId),
     consumer |-> toLowerCase(consumerAddress)]

serializeEnvelope(envelope) ==
    EnvelopeBytes([checkpointId |-> envelope.checkpointId,
                   wrappedKey |-> toHex(envelope.wrappedKey),
                   nonce |-> toHex(envelope.nonce),
                   senderPublicKey |-> toHex(envelope.senderPublicKey)])

deserializeEnvelope(data) ==
    IF data.kind \in {"sealed", "junk", "zero"}
    THEN Err("failed to parse key envelope", NoEnvelope)
    ELSE IF \/ data.kind # "envelope"
            \/ data.env.checkpointId = EmptyId
            \/ data.env.wrappedKey = EmptyHex
            \/ data.env.nonce = EmptyHex
            \/ data.env.senderPublicKey = EmptyHex
    THEN Err("invalid key envelope - missing required fields", NoEnvelope)
    ELSE Ok([checkpointId |-> data.env.checkpointId,
             wrappedKey |-> fromHex(data.env.wrappedKey),
             nonce |-> fromHex(data.env.nonce),
             senderPublicKey |-> fromHex(data.env.senderPublicKey)])

(***************************************************************************)
(* Verification (verify.ts).                                               *)
(***************************************************************************)
\* what a verification function did: returned true, or threw the error
\* whose message spells the computed and the expected digest
VerifyOutcome(err, computed, expected) ==
    [ok |-> err = "", err |-> err, val |-> err = "",
     computed |-> computed, expected |-> expected]

\* mutant: a mismatch is answered by returning false
verifyStateCommitmentReturnsFalse(capsule, expectedCommitment) ==
    LET computed == computeStateCommitment(capsule)
    IN  IF ~serializeCapsule(capsule).ok
        THEN VerifyOutcome(serializeCapsule(capsule).err, ZERO_BYTES32,
                           expectedCommitment)
        ELSE [VerifyOutcome("", computed, expectedCommitment) EXCEPT
                  !.val = toLowerCase(computed) = toLowerCase(expectedCommitment)]

\* computeStateCommitment throws for a capsule that serializeCapsule rejects
verifyStateCommitment(capsule, expectedCommitment) ==
    LET computed == computeStateCommitment(capsule)
    IN  IF ~serializeCapsule(capsule).ok
        THEN VerifyOutcome(serializeCapsule(capsule).err, ZERO_BYTES32,
                           expectedCommitment)
        ELSE IF toLowerCase(computed) # toLowerCase(expectedCommitment)
        THEN VerifyOutcome("state commitment mismatch", computed,
                           expectedCommitment)
        ELSE VerifyOutcome("", computed, expectedCommitment)

\* mutant: the ciphertext hash is not compared
verifyCiphertextHashSkipped(ciphertext, expectedHash) == Ok(TRUE)

verifyCiphertextHash(ciphertext, expectedHash) ==
    LET computed == computeCiphertextHash(ciphertext)
    IN  IF toLowerCase(computed) # toLowerCase(expectedHash)
        THEN VerifyOutcome("ciphertext hash mismatch", computed, expectedHash)
        ELSE VerifyOutcome("", computed, expectedHash)

\* mutant: the ciphertext is decrypted before its hash is compared
verifyAndDecryptDecryptsFirst(ciphertext, key, expectedStateCommitment, expectedCiphertextHash) ==
    LET v1 == verifyCiphertextHash(ciphertext, expectedCiphertextHash)
        pt == decrypt(ciphertext, key)
        cp == deserializeCapsule(pt.val)
        v2 == verifyStateCommitment(cp.val, expectedStateCommitment)
    IN  IF ~pt.ok THEN Err(pt.err, NoCapsule)
        ELSE IF ~v1.ok THEN Err(v1.err, NoCapsule)
        ELSE IF ~cp.ok THEN Err(cp.err, NoCapsule)
        ELSE IF ~v2.ok THEN Err(v2.err, NoCapsule)
        ELSE Ok(cp.val)

\* verifyAndDecrypt: the steps run, in order, and the outcome
verifyAndDecrypt(ciphertext, key, expectedStateCommitment, expectedCiphertextHash) ==
    LET v1 == verifyCiphertextHash(ciphertext, expectedCiphertextHash)
        pt == decrypt(ciphertext, key)
        cp == deserializeCapsule(pt.val)
        v2 == verifyStateCommitment(cp.val, expectedStateCommitment)
    IN  IF ~v1.ok THEN Err(v1.err, NoCapsule)
        ELSE IF ~pt.ok THEN Err(pt.err, NoCapsule)
        ELSE IF ~cp.ok THEN Err(cp.err, NoCapsule)
        ELSE IF ~v2.ok THEN Err(v2.err, NoCapsule)
        ELSE Ok(cp.val)

(***************************************************************************)
(* Metadata passed to seal / publish: undefined, a falsy JSON scalar, or   *)
(* a JSON object (a capsule-shaped value with an empty version).           *)
(***************************************************************************)
NoMetadata == [supplied |-> FALSE, truthy |-> FALSE, value |-> NoCapsule]
ObjectMetadata(payload) ==
    [supplied |-> TRUE, truthy |-> TRUE, value |-> MkCapsule("", payload)]

serializeCanonical(value) == canonicalBytes(value)
computeMetadataHash(value) == hashBytes(serializeCanonical(value))

(***************************************************************************)
(* Sealed mode (sealed.ts).                                                *)
(***************************************************************************)
NoSealed ==
    [ciphertext |-> JunkBytes, contentHash |-> ZERO_BYTES32,
     stateCommitment |-> ZERO_BYTES32, metadataHash |-> ZERO_BYTES32,
     encryptionKey |-> NoKey]

\* mutant: the commitment is taken over the insertion-order JSON
sealInsertionOrder(capsule, metadata, key, iv) ==
    LET plaintext == serializeCapsule(capsule)
        ciphertext == encrypt(plaintext.val, key, iv)
    IN  IF ~plaintext.ok THEN Err(plaintext.err, NoSealed)
        ELSE IF ~ciphertext.ok THEN Err(ciphertext.err, NoSealed)
        ELSE Ok([ciphertext |-> ciphertext.val,
                 contentHash |-> computeCiphertextHash(ciphertext.val),
                 stateCommitment |->
                     hashBytes(JsonBytes(capsule.version, capsule.payload)),
                 metadataHash |-> ZERO_BYTES32,
                 encryptionKey |-> key])

\* seal: serialize, commit, encrypt with a fresh key (key, iv: the draws)
seal(capsule, metadata, key, iv) ==
    LET plaintext == serializeCapsule(capsule)
        ciphertext == encrypt(plaintext.val, key, iv)
    IN  IF ~plaintext.ok THEN Err(plaintext.err, NoSealed)
        ELSE IF ~ciphertext.ok THEN Err(ciphertext.err, NoSealed)
        ELSE Ok([ciphertext |-> ciphertext.val,
                 contentHash |-> computeCiphertextHash(ciphertext.val),
                 stateCommitment |-> computeStateCommitment(capsule),
                 metadataHash |-> IF metadata.truthy
                                  THEN computeMetadataHash(metadata.value)
                                  ELSE ZERO_BYTES32,
                 encryptionKey |-> key])

\* unseal: the optional checks are made only for a supplied commitment
unseal(ciphertext, key, stateCommitment, ciphertextHash, hasState, hasHash) ==
    LET v1 == verifyCiphertextHash(ciphertext, ciphertextHash)
        pt == decrypt(ciphertext, key)
        cp == deserializeCapsule(pt.val)
        v2 == verifyStateCommitment(cp.val, stateCommitment)
    IN  IF hasHash /\ ~v1.ok THEN Err(v1.err, NoCapsule)
        ELSE IF ~pt.ok THEN Err(pt.err, NoCapsule)
        ELSE IF ~cp.ok THEN Err(cp.err, NoCapsule)
        ELSE IF hasState /\ ~v2.ok THEN Err(v2.err, NoCapsule)
        ELSE Ok(cp.val)

\* the calls verifyAndDecrypt and unseal make, in order, up to the one that
\* throws; unseal leaves out the check of a commitment that is not supplied
StepsRun(ciphertext, key, stateCommitment, ciphertextHash, hasState, hasHash) ==
    LET v1 == verifyCiphertextHash(ciphertext, ciphertextHash)
        pt == decrypt(ciphertext, key)
        cp == deserializeCapsule(pt.val)
        first == IF hasHash THEN <<"verifyCiphertextHash">> ELSE <<>>
        last == IF hasState THEN <<"verifyStateCommitment">> ELSE <<>>
    IN  IF hasHash /\ ~v1.ok THEN first
        ELSE IF ~pt.ok THEN first \o <<"decrypt">>
        ELSE IF ~cp.ok THEN first \o <<"decrypt", "deserializeCapsule">>
        ELSE first \o <<"decrypt", "deserializeCapsule">> \o last

(***************************************************************************)
(* The synchronous head of publish (client.ts, registryClient.ts).         *)
(***************************************************************************)
publishPrepare(capsule, metadata, encryptionKey, iv) ==
    LET plaintext == serializeCapsule(capsule)
        ciphertext == encrypt(plaintext.val, encryptionKey, iv)
    IN  IF ~plaintext.ok THEN Err(plaintext.err, NoSealed)
        ELSE IF ~ciphertext.ok THEN Err(ciphertext.err, NoSealed)
        ELSE Ok([ciphertext |-> ciphertext.val,
                 contentHash |-> computeCiphertextHash(ciphertext.val),
                 stateCommitment |-> computeStateCommitment(capsule),
                 metadataHash |-> IF metadata.truthy
                                  THEN computeMetadataHash(metadata.value)
                                  ELSE ZERO_BYTES32,
                 encryptionKey |-> encryptionKey])

(***************************************************************************)
(* Maps (JavaScript Map, contract mappings) as sets of <<key, value>>.     *)
(***************************************************************************)
MapHas(m, k) == \E e \in m : e[1] = k
MapGet(m, k) == (CHOOSE e \in m : e[1] = k)[2]
MapSet(m, k, v) == {e \in m : e[1] # k} \cup {<<k, v>>}

(***************************************************************************)
(* The parties and the inputs the operations are called with.              *)
(***************************************************************************)
TokenAddress == MkId(1)
RegistryAddress == MkId(2)
ConsumerAddress == MkId(7)
ConsumerSecretKey == MkKey(3)
OtherSecretKey == MkKey(4)
PublisherSecretKey == MkKey(5)

\* capsules: a payload already in canonical order, one that is not, and the
\* two shapes assertValidCapsule rejects
SortedCapsule == MkCapsule("1.0.0", <<<<1, 10>>>>)
UnsortedCapsule == MkCapsule("1.0.0", <<<<2, 20>>, <<1, 10>>>>)
NoVersionCapsule == MkCapsule("", <<>>)
NoPayloadCapsule == [version |-> "1.0.0", hasPayload |-> FALSE, payload |-> <<>>]

\* the calls of publish: <<client, capsule, options.metadata>>
PublishInputs ==
    {<<"token", UnsortedCapsule, NoMetadata>>,
     <<"registry", SortedCapsule, ObjectMetadata(<<<<1, 10>>>>)>>,
     <<"token", NoVersionCapsule, NoMetadata>>,
     <<"registry", NoPayloadCapsule, NoMetadata>>}

\* a commitment a publisher may write by hand: that of another capsule
DirectCommitment == computeStateCommitment(MkCapsule("1.0.0", <<<<1, 11>>>>))

NoCheckpoint ==
    [checkpointId |-> EmptyId, predecessorId |-> EmptyId,
     stateCommitment |-> ZERO_BYTES32, ciphertextHash |-> ZERO_BYTES32,
     ciphertextUri |-> 0, manifestHash |-> ZERO_BYTES32]

IdlePublish ==
    [pc |-> "idle", client |-> "token", capsule |-> NoCapsule,
     sealed |-> NoSealed, uri |-> 0, base |-> 0, calls |-> <<>>,
     direct |-> FALSE,
     result |-> Ok(EmptyId)]

\* the callers of consume; Caller is the one whose invocations never overlap
Slots == {"c1", "c2"}
Caller == "c1"

IdleConsume ==
    [pc |-> "idle", client |-> "token", checkpointId |-> EmptyId,
     secretKey |-> NoKey, alreadyRedeemed |-> FALSE,
     keyEnvelope |-> NoEnvelope, checkpoint |-> NoCheckpoint,
     ciphertext |-> JunkBytes, calls |-> <<>>, steps |-> <<>>,
     cause |-> "", result |-> Ok(NoCapsule)]

Call(op, ok) == [op |-> op, ok |-> ok]

\* the sealed-mode pipeline: its inputs, its own storage provider, delivery
\* index and key manager, and what each step returned
IdleE2E ==
    [pc |-> "idle", capsule |-> NoCapsule, recipient |-> NoKey,
     sealed |-> NoSealed, uri |-> 0, st |-> <<>>, index |-> {}, ks |-> {},
     keyEnvelope |-> NoEnvelope, key |-> NoKey, ciphertext |-> JunkBytes,
     result |-> Ok(NoCapsule)]

\* a call of verifyStateCommitment or verifyCiphertextHash
IdleChecked ==
    [pc |-> "idle", fn |-> "", capsule |-> NoCapsule, ciphertext |-> JunkBytes,
     result |-> VerifyOutcome("", ZERO_BYTES32, ZERO_BYTES32)]

\* a call of verifyCheckpointLineage: its argument and what it returned/threw
IdleVerified ==
    [pc |-> "idle", checkpoints |-> <<>>,
     result |-> [ok |-> TRUE, err |-> "", index |-> 0]]

\* no pure function called yet
IdleApplied == [fn |-> ""]

\* a call of KeyDeliveryProvider.fetchEnvelope: the arguments and the outcome
IdleFetched ==
    [pc |-> "idle", tokenAddress |-> EmptyId, checkpointId |-> EmptyId,
     consumerAddress |-> EmptyId, result |-> Err("", NoEnvelope)]

\* the auto-fulfiller before it is started: the chain's head block and the
\* Redeemed events logged so far, CREATED_AT_BLOCK (0: not set), the range
\* catch-up scanned, the first lastBlock of live polling, lastBlock and
\* toBlock, the events still to handle, the attempt of withRetry, the key
\* store it loaded, shutdownRequested; and the history of what it did: the
\* events passed to handleRedemption, those whose delivery failed, the
\* transactions sent and those not yet mined, and whether a loop was left
\* by the shutdown break
IdleFulfiller ==
    [pc |-> "off", step |-> "next", head |-> 0, events |-> {}, createdAt |-> 0,
     catchUpTo |-> 0, liveFrom |-> 0, lastBlock |-> 0, toBlock |-> 0,
     queue |-> <<>>, attempt |-> 0, ks |-> {}, shutdownRequested |-> FALSE,
     handled |-> {}, failed |-> {}, txs |-> <<>>, pending |-> {},
     broke |-> FALSE]

\* a call of getLineage: the contract's records, the arguments, the locals
\* of the loop, the getCheckpoint calls made, and the outcome
IdleWalk ==
    [pc |-> "idle", source |-> <<>>, checkpointId |-> EmptyId, maxDepth |-> 0,
     currentId |-> EmptyId, lineage |-> <<>>, visited |-> {}, lookups |-> 0,
     result |-> [ok |-> TRUE, err |-> "", at |-> EmptyId]]

VARIABLES
    store,          \* StorageProvider: the uploaded byte strings, uri = position
    checkpoints,    \* ledger: the published checkpoint records, id = position
    redeemed,       \* ledger: the checkpoints the consumer has redeemed
    balance,        \* ledger: the consumer's token balance
    chainEnvelopes, \* ledger: delivered envelopes, <<<<consumer, checkpoint>>, envelope>>
    mode,           \* the KeyDeliveryProvider in use: "storage" or "onchain"
    verified,       \* verifyCheckpointLineage: the sequence checked and the verdict
    walk,           \* getLineage: the record source, the arguments and the loop state
    checked,        \* verifyStateCommitment / verifyCiphertextHash: a call and its outcome
    written,        \* history: every <<identifier, key>> the key store was given
    delivered,      \* history: the calls that stored an envelope for the consumer
    fetched,        \* the consumer's last direct fetchEnvelope call and its outcome
    applied,        \* a call of a pure function of the library: arguments, outcome
    fulfiller,      \* the on-chain auto-fulfiller script: the chain it watches, its locals
    pubIndex,       \* the publisher's StorageKeyDelivery.index
    conIndex,       \* the consumer's StorageKeyDelivery.index
    indexUri,       \* the index URI the publisher shared last (0: none)
    keys,           \* PublisherKeyManager.keys
    fulfilled,      \* outcome of the last fulfillRedemption
    nPublishes,     \* publish invocations started
    nFulfills,      \* fulfillRedemption calls made
    pub,            \* the publish invocation
    con,            \* the consume invocations, by caller
    redeemCalls,    \* history: outcomes of the redeem calls consume made, per checkpoint
    e2e             \* the sealed-mode pipeline (seal ... verifyAndDecrypt)

trail == <<written, delivered, fetched, applied, fulfiller>>
world == <<store, checkpoints, redeemed, balance, chainEnvelopes, pubIndex,
           conIndex, indexUri, keys>>
vars == <<store, checkpoints, redeemed, balance, chainEnvelopes, mode, fulfiller, written,
          delivered, fetched, applied, verified, walk, checked, pubIndex,
          conIndex, indexUri, keys, fulfilled, nPublishes, nFulfills, pub, con,
          redeemCalls, e2e>>

CheckpointNumbers == 1..(MaxPublishes + 1)

Init ==
    /\ store = <<>>
    /\ checkpoints = <<>>
    /\ redeemed = {}
    /\ balance \in 0..MaxBalance
    /\ chainEnvelopes = {}
    /\ mode \in {"storage", "onchain"}
    /\ fulfiller = IdleFulfiller
    /\ pubIndex = {}
    /\ conIndex = {}
    /\ indexUri = 0
    /\ keys = {}
    /\ written = {}
    /\ delivered = {}
    /\ fetched = IdleFetched
    /\ applied = IdleApplied
    /\ fulfilled = Ok(TRUE)
    /\ nPublishes = 0
    /\ nFulfills = 0
    /\ pub = IdlePublish
    /\ con = [s \in Slots |-> IdleConsume]
    /\ redeemCalls = [n \in CheckpointNumbers |-> <<>>]
    /\ e2e = IdleE2E
    /\ verified = IdleVerified
    /\ walk = IdleWalk
    /\ checked = IdleChecked

(***************************************************************************)
(* Storage provider (storage.ts, and the Map-backed one of the tests).     *)
(***************************************************************************)
storageUpload(st, data) == [store |-> Append(st, data), uri |-> Len(st) + 1]
storageDownload(st, uri) ==
    IF uri \in DOMAIN st THEN Ok(st[uri]) ELSE Err("not found", JunkBytes)

(***************************************************************************)
(* The ledger contract.                                                    *)
(***************************************************************************)
ledgerHead(cps) == IF cps = <<>> THEN EmptyId ELSE MkId(Len(cps))
ledgerPublish(cps, stateCommitment, ciphertextHash, ciphertextUri, manifestHash) ==
    Append(cps, [checkpointId |-> MkId(Len(cps) + 1),
                 predecessorId |-> ledgerHead(cps),
                 stateCommitment |-> stateCommitment,
                 ciphertextHash |-> ciphertextHash,
                 ciphertextUri |-> ciphertextUri,
                 manifestHash |-> manifestHash])

(***************************************************************************)
(* publish (MindstateClient.publish, MindstateRegistryClient.publish).     *)
(***************************************************************************)
PublishStart(client, capsule, metadata) ==
    /\ pub.pc \in {"idle", "done"}
    /\ nPublishes < MaxPublishes
    /\ nPublishes' = nPublishes + 1
    /\ LET sealed == publishPrepare(capsule, metadata, MkKey(nPublishes + 1),
                                     nPublishes + 1)
       IN  pub' = IF sealed.ok
                  THEN [IdlePublish EXCEPT !.pc = "upload", !.client = client,
                                           !.capsule = capsule,
                                           !.base = Len(checkpoints),
                                           !.sealed = sealed.val]
                  ELSE [IdlePublish EXCEPT !.pc = "done", !.client = client,
                                           !.capsule = capsule,
                                           !.base = Len(checkpoints),
                                           !.result = Err(sealed.err, EmptyId)]
    /\ UNCHANGED <<world, mode, trail, verified, walk, checked, fulfilled,
                   nFulfills, con, redeemCalls, e2e>>

PublishUpload ==
    /\ pub.pc = "upload"
    /\ LET up == storageUpload(store, pub.sealed.ciphertext)
       IN  /\ store' = up.store
           /\ pub' = [pub EXCEPT !.pc = "publishCheckpoint", !.uri = up.uri,
                                 !.calls = Append(@, "upload")]
    /\ UNCHANGED <<checkpoints, redeemed, balance, chainEnvelopes, mode,
                   trail, verified, walk, checked, pubIndex, conIndex,
                   indexUri, keys, fulfilled, nPublishes, nFulfills, con,
                   redeemCalls, e2e>>

\* mutant: a failed upload does not stop publish
PublishUploadFailureIgnored ==
    /\ pub.pc = "upload"
    /\ pub' = [pub EXCEPT !.pc = "publishCheckpoint",
                          !.calls = Append(@, "upload")]
    /\ UNCHANGED <<world, mode, trail, verified, walk, checked, fulfilled,
                   nPublishes, nFulfills, con, redeemCalls, e2e>>

PublishUploadFails ==
    /\ pub.pc = "upload"
    /\ pub' = [pub EXCEPT !.pc = "done", !.calls = Append(@, "upload"),
                          !.result = Err("upload failed", EmptyId)]
    /\ UNCHANGED <<world, mode, trail, verified, walk, checked, fulfilled,
                   nPublishes, nFulfills, con, redeemCalls, e2e>>

PublishCheckpoint ==
    /\ pub.pc = "publishCheckpoint"
    /\ checkpoints' = ledgerPublish(checkpoints, pub.sealed.stateCommitment,
                                    pub.sealed.contentHash, pub.uri,
                                    pub.sealed.metadataHash)
    /\ pub' = [pub EXCEPT !.pc = "done",
                          !.calls = Append(@, "publishCheckpoint"),
                          !.result = Ok(MkId(Len(checkpoints) + 1))]
    /\ UNCHANGED <<store, redeemed, balance, chainEnvelopes, mode, trail,
                   verified, walk, checked, pubIndex, conIndex, indexUri,
                   keys, fulfilled, nPublishes, nFulfills, con, redeemCalls,
                   e2e>>

PublishCheckpointFails ==
    /\ pub.pc = "publishCheckpoint"
    /\ pub' = [pub EXCEPT !.pc = "done",
                          !.calls = Append(@, "publishCheckpoint"),
                          !.result = Err("publish transaction failed", EmptyId)]
    /\ UNCHANGED <<world, mode, trail, verified, walk, checked, fulfilled,
                   nPublishes, nFulfills, con, redeemCalls, e2e>>

\* MindstateClient.publishCheckpoint called directly, after a publish whose
\* ledger call failed: the publisher supplies the commitments by hand
PublishCheckpointDirect(stateCommitment, ciphertextHash) ==
    /\ pub.pc = "done"
    /\ ~pub.result.ok
    /\ pub.uri # 0
    /\ checkpoints' = ledgerPublish(checkpoints, stateCommitment, ciphertextHash,
                                    pub.uri, pub.sealed.metadataHash)
    /\ pub' = [pub EXCEPT !.direct = TRUE,
                          !.result = Ok(MkId(Len(checkpoints) + 1))]
    /\ UNCHANGED <<store, redeemed, balance, chainEnvelopes, mode, trail,
                   verified, walk, checked, pubIndex, conIndex, indexUri,
                   keys, fulfilled, nPublishes, nFulfills, con, redeemCalls,
                   e2e>>

(***************************************************************************)
(* The ledger contract, continued: burn-to-redeem and envelope delivery.   *)
(* redeem reverts for an unknown checkpoint, for one already redeemed, or  *)
(* without the tokens to burn; deliverKeyEnvelope reverts unless the       *)
(* consumer has redeemed the checkpoint.                                   *)
(***************************************************************************)
ledgerHasRedeemed(red, checkpointId) == checkpointId.n \in red

ledgerRedeem(cps, red, bal, checkpointId) ==
    IF \/ checkpointId.n \notin DOMAIN cps
       \/ checkpointId.n \in red
       \/ bal = 0
    THEN Err("redeem reverted", [redeemed |-> red, balance |-> bal])
    ELSE Ok([redeemed |-> red \cup {checkpointId.n}, balance |-> bal - 1])

ledgerGetCheckpoint(cps, checkpointId) ==
    IF checkpointId.n \in DOMAIN cps
    THEN Ok([cps[checkpointId.n] EXCEPT !.checkpointId = checkpointId])
    ELSE Err("getCheckpoint reverted", NoCheckpoint)

ledgerDeliverKeyEnvelope(envs, red, consumer, checkpointId, stored) ==
    IF checkpointId.n \notin red
    THEN Err("deliverKeyEnvelope reverted", envs)
    ELSE Ok(MapSet(envs, <<consumer.n, checkpointId.n>>, stored))

(***************************************************************************)
(* StorageKeyDelivery (keyDelivery.ts).                                    *)
(***************************************************************************)
storageStoreEnvelope(index, st, tokenAddress, checkpointId, consumerAddress, envelope) ==
    LET id == computeEnvelopeId(tokenAddress, checkpointId, consumerAddress)
        up == storageUpload(st, serializeEnvelope(envelope))
    IN  [index |-> MapSet(index, id, up.uri), store |-> up.store]

storageFetchEnvelope(index, st, tokenAddress, checkpointId, consumerAddress) ==
    LET id == computeEnvelopeId(tokenAddress, checkpointId, consumerAddress)
    IN  IF ~MapHas(index, id)
        THEN Err("key envelope not found", NoEnvelope)
        ELSE IF ~storageDownload(st, MapGet(index, id)).ok
        THEN Err(storageDownload(st, MapGet(index, id)).err, NoEnvelope)
        ELSE deserializeEnvelope(storageDownload(st, MapGet(index, id)).val)

publishIndex(index, st) == storageUpload(st, IndexBytes(index))

\* mutant: the downloaded entries replace the index
loadIndexReplacing(index, st, uri) == st[uri].idx

\* loadIndex: every downloaded entry is set, nothing is removed
loadIndex(index, st, uri) ==
    LET entries == st[uri].idx
    IN  {e \in index : ~MapHas(entries, e[1])} \cup entries

(***************************************************************************)
(* OnChainKeyDelivery (onChainKeyDelivery.ts).  The token contract lives   *)
(* at TokenAddress; a call to any other address fails.                     *)
(***************************************************************************)
hexlify(bytes) == [pfx |-> TRUE, digits |-> HexDigits(bytes)]
getBytes(hex) ==
    [i \in 1..(Len(hex.digits) \div 2) |->
        hex.digits[2 * i - 1] * 16 + hex.digits[2 * i]]

onChainStoreEnvelope(envs, red, tokenAddress, checkpointId, consumerAddress, envelope) ==
    IF toLowerCase(tokenAddress) # TokenAddress
    THEN Err("call failed", envs)
    ELSE ledgerDeliverKeyEnvelope(envs, red, consumerAddress, checkpointId,
             [wrappedKey |-> hexlify(envelope.wrappedKey),
              nonce |-> hexlify(envelope.nonce),
              senderPublicKey |-> hexlify(envelope.senderPublicKey)])

\* mutant: the contract is asked for an envelope of the consumer, whatever
\* its checkpoint
onChainFetchEnvelopeOfConsumer(envs, tokenAddress, checkpointId, consumerAddress) ==
    LET mine == {e \in envs : e[1][1] = consumerAddress.n}
        any == (CHOOSE e \in mine : TRUE)[2]
    IN  IF toLowerCase(tokenAddress) # TokenAddress
        THEN Err("call failed", NoEnvelope)
        ELSE IF mine = {}
        THEN Err("on-chain key envelope not found", NoEnvelope)
        ELSE Ok([checkpointId |-> checkpointId,
                 wrappedKey |-> getBytes(any.wrappedKey),
                 nonce |-> getBytes(any.nonce),
                 senderPublicKey |-> getBytes(any.senderPublicKey)])

onChainFetchEnvelope(envs, tokenAddress, checkpointId, consumerAddress) ==
    LET at == <<consumerAddress.n, checkpointId.n>>
    IN  IF toLowerCase(tokenAddress) # TokenAddress
        THEN Err("call failed", NoEnvelope)
        ELSE IF ~MapHas(envs, at)
        THEN Err("on-chain key envelope not found", NoEnvelope)
        ELSE Ok([checkpointId |-> checkpointId,
                 wrappedKey |-> getBytes(MapGet(envs, at).wrappedKey),
                 nonce |-> getBytes(MapGet(envs, at).nonce),
                 senderPublicKey |-> getBytes(MapGet(envs, at).senderPublicKey)])

\* keyDelivery.fetchEnvelope of the consumer's provider
fetchEnvelope(tokenAddress, checkpointId, consumerAddress) ==
    IF mode = "storage"
    THEN storageFetchEnvelope(conIndex, store, tokenAddress, checkpointId,
                              consumerAddress)
    ELSE onChainFetchEnvelope(chainEnvelopes, tokenAddress, checkpointId,
                              consumerAddress)

(***************************************************************************)
(* PublisherKeyManager / OnChainPublisherKeyManager.                       *)
(***************************************************************************)
storeKey(ks, checkpointId, key) == MapSet(ks, toLowerCase(checkpointId), key)

\* mutant: the key wrapped is one stored under another identifier
fulfillRedemptionOtherKey(ks, checkpointId, consumerPublicKey, senderSecretKey, nonce) ==
    LET normalizedId == toLowerCase(checkpointId)
        others == {e \in ks : e[1] # normalizedId}
        K == IF others = {} THEN MapGet(ks, normalizedId)
             ELSE (CHOOSE e \in others : TRUE)[2]
    IN  IF ~MapHas(ks, normalizedId)
        THEN Err("no key stored for checkpoint", NoEnvelope)
        ELSE IF consumerPublicKey.len # PUBLIC_KEY_LENGTH
        THEN Err("consumer public key must be 32 bytes", NoEnvelope)
        ELSE Ok([wrapKey(K, consumerPublicKey, senderSecretKey, nonce)
                     EXCEPT !.checkpointId = checkpointId])

\* fulfillRedemption up to the storeEnvelope call: the envelope to deliver
fulfillRedemption(ks, checkpointId, consumerPublicKey, senderSecretKey, nonce) ==
    LET normalizedId == toLowerCase(checkpointId)
    IN  IF ~MapHas(ks, normalizedId)
        THEN Err("no key stored for checkpoint", NoEnvelope)
        ELSE IF consumerPublicKey.len # PUBLIC_KEY_LENGTH
        THEN Err("consumer public key must be 32 bytes", NoEnvelope)
        ELSE Ok([wrapKey(MapGet(ks, normalizedId), consumerPublicKey,
                         senderSecretKey, nonce)
                     EXCEPT !.checkpointId = checkpointId])

(***************************************************************************)
(* The publisher: storeKey after publish, fulfillRedemption, publishIndex. *)
(***************************************************************************)
StoreKey ==
    /\ pub.pc = "done"
    /\ pub.result.ok
    /\ ~MapHas(keys, toLowerCase(pub.result.val))
    /\ keys' = storeKey(keys, pub.result.val, pub.sealed.encryptionKey)
    /\ written' = written \cup {<<toLowerCase(pub.result.val),
                                  pub.sealed.encryptionKey>>}
    /\ UNCHANGED <<store, checkpoints, redeemed, balance, chainEnvelopes, mode, fulfiller,
                   delivered, fetched, applied, verified, walk, checked, pubIndex,
                   conIndex, indexUri, fulfilled, nPublishes, nFulfills, pub,
                   con, redeemCalls, e2e>>

\* what a fulfillRedemption call that delivered an envelope was asked and
\* what it handed to storeEnvelope; held is the key the store held for the
\* checkpoint when the call was made
Delivery(tokenAddress, checkpointId, envelope) ==
    [tokenAddress |-> tokenAddress, checkpointId |-> checkpointId,
     consumerAddress |-> ConsumerAddress, envelope |-> envelope,
     held |-> MapGet(keys, toLowerCase(checkpointId))]

\* mutant: the envelope is stored before the key and the public key are
\* looked at
FulfillStoresFirst(tokenAddress, checkpointId, consumerPublicKey) ==
    /\ nFulfills < MaxFulfills
    /\ nFulfills' = nFulfills + 1
    /\ LET f == fulfillRedemption(keys, checkpointId, consumerPublicKey,
                                  PublisherSecretKey, nFulfills + 1)
           s == storageStoreEnvelope(pubIndex, store, tokenAddress, checkpointId,
                                     ConsumerAddress, f.val)
           c == onChainStoreEnvelope(chainEnvelopes, redeemed, tokenAddress,
                                     checkpointId, ConsumerAddress, f.val)
       IN  IF mode = "storage"
           THEN /\ fulfilled' = IF f.ok THEN Ok(TRUE) ELSE Err(f.err, FALSE)
                /\ store' = s.store
                /\ pubIndex' = s.index
                /\ UNCHANGED <<chainEnvelopes, delivered>>
           ELSE /\ fulfilled' = IF ~f.ok THEN Err(f.err, FALSE)
                                 ELSE IF c.ok THEN Ok(TRUE) ELSE Err(c.err, FALSE)
                /\ chainEnvelopes' = c.val
                /\ UNCHANGED <<store, pubIndex, delivered>>
    /\ UNCHANGED <<checkpoints, redeemed, balance, mode, fulfiller, written, fetched, applied,
                   verified, walk, checked, conIndex, indexUri, keys,
                   nPublishes, pub, con, redeemCalls, e2e>>

Fulfill(tokenAddress, checkpointId, consumerPublicKey) ==
    /\ nFulfills < MaxFulfills
    /\ nFulfills' = nFulfills + 1
    /\ LET f == fulfillRedemption(keys, checkpointId, consumerPublicKey,
                                  PublisherSecretKey, nFulfills + 1)
           s == storageStoreEnvelope(pubIndex, store, tokenAddress, checkpointId,
                                     ConsumerAddress, f.val)
           c == onChainStoreEnvelope(chainEnvelopes, redeemed, tokenAddress,
                                     checkpointId, ConsumerAddress, f.val)
           d == Delivery(tokenAddress, checkpointId, f.val)
       IN  IF ~f.ok
           THEN /\ fulfilled' = Err(f.err, FALSE)
                /\ UNCHANGED <<store, pubIndex, chainEnvelopes, delivered>>
           ELSE IF mode = "storage"
           THEN /\ fulfilled' = Ok(TRUE)
                /\ store' = s.store
                /\ pubIndex' = s.index
                /\ delivered' = delivered \cup {d}
                /\ UNCHANGED chainEnvelopes
           ELSE /\ fulfilled' = IF c.ok THEN Ok(TRUE) ELSE Err(c.err, FALSE)
                /\ chainEnvelopes' = c.val
                /\ delivered' = IF c.ok THEN delivered \cup {d} ELSE delivered
                /\ UNCHANGED <<store, pubIndex>>
    /\ UNCHANGED <<checkpoints, redeemed, balance, mode, fulfiller, written, fetched, applied,
                   verified, walk, checked, conIndex, indexUri, keys,
                   nPublishes, pub, con, redeemCalls, e2e>>

\* the storeEnvelope call itself fails (upload error, RPC error)
FulfillStoreFails(tokenAddress, checkpointId, consumerPublicKey) ==
    /\ nFulfills < MaxFulfills
    /\ nFulfills' = nFulfills + 1
    /\ fulfillRedemption(keys, checkpointId, consumerPublicKey,
                         PublisherSecretKey, nFulfills + 1).ok
    /\ fulfilled' = Err("storeEnvelope failed", FALSE)
    /\ UNCHANGED <<world, mode, trail, verified, walk, checked, nPublishes,
                   pub, con, redeemCalls, e2e>>

\* publishIndex, the returned URI being shared with the consumer
PublishIndex ==
    /\ mode = "storage"
    /\ pubIndex # {}
    /\ IF indexUri = 0 THEN TRUE ELSE store[indexUri].idx # pubIndex
    /\ store' = publishIndex(pubIndex, store).store
    /\ indexUri' = publishIndex(pubIndex, store).uri
    /\ UNCHANGED <<checkpoints, redeemed, balance, chainEnvelopes, mode,
                   trail, verified, walk, checked, pubIndex, conIndex, keys,
                   fulfilled, nPublishes, nFulfills, pub, con, redeemCalls,
                   e2e>>

\* the consumer's loadIndex(indexUri)
LoadIndex ==
    /\ mode = "storage"
    /\ indexUri # 0
    /\ conIndex' = loadIndex(conIndex, store, indexUri)
    /\ conIndex' # conIndex
    /\ UNCHANGED <<store, checkpoints, redeemed, balance, chainEnvelopes,
                   mode, trail, verified, walk, checked, pubIndex, indexUri,
                   keys, fulfilled, nPublishes, nFulfills, pub, con,
                   redeemCalls, e2e>>

\* the consumer calls MindstateClient.redeem directly
ManualRedeem(checkpointId) ==
    /\ ledgerRedeem(checkpoints, redeemed, balance, checkpointId).ok
    /\ redeemed' = ledgerRedeem(checkpoints, redeemed, balance, checkpointId).val.redeemed
    /\ balance' = ledgerRedeem(checkpoints, redeemed, balance, checkpointId).val.balance
    /\ UNCHANGED <<store, checkpoints, chainEnvelopes, mode, trail, verified,
                   walk, checked, pubIndex, conIndex, indexUri, keys,
                   fulfilled, nPublishes, nFulfills, pub, con, redeemCalls,
                   e2e>>

(***************************************************************************)
(* consume (MindstateClient.consume, MindstateRegistryClient.consume).     *)
(* One action per awaited call; calls logs the collaborator calls made,    *)
(* steps the synchronous steps run after the download.                     *)
(***************************************************************************)
InFlight(c) == c.pc \notin {"idle", "done"}

Finish(c, result) == [c EXCEPT !.pc = "done", !.result = result]

Logged(c, op, ok) == [c EXCEPT !.calls = Append(@, Call(op, ok))]

\* the error of a call that was itself rejected (transport, RPC, no contract)
CallFailedError == "call failed"

\* what a collaborator's unsuccessful answer r was: no result, or a failed call
CauseOf(r) == IF r.err = CallFailedError THEN "failed" ELSE "absent"

\* the call to op did not produce a result: the collaborator answered that
\* there is none ("absent") or the call itself was rejected ("failed")
Failed(c, op, cause, err) ==
    [Finish(Logged(c, op, FALSE), Err(err, NoCapsule)) EXCEPT !.cause = cause]

\* the synchronous tail of consume, after the download
consumeTail(ciphertext, checkpoint, keyEnvelope, secretKey) ==
    LET v1 == verifyCiphertextHash(ciphertext, checkpoint.ciphertextHash)
        contentKey == unwrapKey(keyEnvelope, secretKey)
        plaintext == decrypt(ciphertext, contentKey.val)
        capsule == deserializeCapsule(plaintext.val)
        v2 == verifyStateCommitment(capsule.val, checkpoint.stateCommitment)
        R(r, steps) == [ok |-> r.ok, err |-> r.err, val |-> NoCapsule, steps |-> steps]
    IN  IF ~v1.ok THEN R(v1, <<"verifyCiphertextHash">>)
        ELSE IF ~contentKey.ok
        THEN R(contentKey, <<"verifyCiphertextHash", "unwrapKey">>)
        ELSE IF ~plaintext.ok
        THEN R(plaintext, <<"verifyCiphertextHash", "unwrapKey", "decrypt">>)
        ELSE IF ~capsule.ok
        THEN R(capsule, <<"verifyCiphertextHash", "unwrapKey", "decrypt",
                          "deserializeCapsule">>)
        ELSE IF ~v2.ok
        THEN R(v2, <<"verifyCiphertextHash", "unwrapKey", "decrypt",
                     "deserializeCapsule", "verifyStateCommitment">>)
        ELSE [ok |-> TRUE, err |-> "", val |-> capsule.val,
              steps |-> <<"verifyCiphertextHash", "unwrapKey", "decrypt",
                          "deserializeCapsule", "verifyStateCommitment">>]

\* the address fetchEnvelope is called with
EnvelopeToken(c) == IF c.client = "token" THEN TokenAddress ELSE RegistryAddress

ConsumeFrame == UNCHANGED <<world, mode, trail, verified, walk, checked,
                            fulfilled, nPublishes, nFulfills, pub,
                            redeemCalls, e2e>>

\* mutant: the token client does not ask the ledger for the redemption status
ConsumeStartBlind(s, client, checkpointId, secretKey, hasSigner) ==
    /\ ~InFlight(con[s])
    /\ \A n \in CheckpointNumbers : Len(redeemCalls[n]) < MaxRedeemCalls
    /\ LET c == [IdleConsume EXCEPT !.client = client,
                                    !.checkpointId = checkpointId,
                                    !.secretKey = secretKey]
       IN  con' = [con EXCEPT ![s] =
                IF ~hasSigner
                THEN Finish(IdleConsume, Err("a signer is required", NoCapsule))
                ELSE [c EXCEPT !.pc = IF client = "token" THEN "preflight"
                                      ELSE "fetch"]]
    /\ ConsumeFrame

\* the call, the signer lookup, and for the registry client nothing else
ConsumeStart(s, client, checkpointId, secretKey, hasSigner) ==
    /\ ~InFlight(con[s])
    /\ \A n \in CheckpointNumbers : Len(redeemCalls[n]) < MaxRedeemCalls
    /\ LET c == [IdleConsume EXCEPT !.client = client,
                                    !.checkpointId = checkpointId,
                                    !.secretKey = secretKey]
       IN  con' = [con EXCEPT ![s] =
                IF ~hasSigner
                THEN Finish(IdleConsume, Err("a signer is required", NoCapsule))
                ELSE [c EXCEPT !.pc = IF client = "token" THEN "hasRedeemed"
                                      ELSE "fetch"]]
    /\ ConsumeFrame

\* mutant: the redemption status is read but not branched on
ConsumeHasRedeemedIgnored(s) ==
    /\ con[s].pc = "hasRedeemed"
    /\ LET already == ledgerHasRedeemed(redeemed, con[s].checkpointId)
       IN  con' = [con EXCEPT ![s] =
                [Logged(@, "hasRedeemed", TRUE) EXCEPT
                     !.alreadyRedeemed = already, !.pc = "preflight"]]
    /\ ConsumeFrame

ConsumeHasRedeemed(s) ==
    /\ con[s].pc = "hasRedeemed"
    /\ LET already == ledgerHasRedeemed(redeemed, con[s].checkpointId)
       IN  con' = [con EXCEPT ![s] =
                [Logged(@, "hasRedeemed", TRUE) EXCEPT
                     !.alreadyRedeemed = already,
                     !.pc = IF already THEN "fetch" ELSE "preflight"]]
    /\ ConsumeFrame

\* mutant: the pre-flight result is not checked before the burn
ConsumePreflightUngated(s) ==
    /\ con[s].pc = "preflight"
    /\ LET r == fetchEnvelope(TokenAddress, con[s].checkpointId, ConsumerAddress)
       IN  con' = [con EXCEPT ![s] =
                [Logged(@, "fetchEnvelope", r.ok) EXCEPT
                     !.keyEnvelope = r.val, !.pc = "redeem"]]
    /\ ConsumeFrame

\* mutant: the provider's own error is passed on
ConsumePreflightRethrows(s) ==
    /\ con[s].pc = "preflight"
    /\ LET r == fetchEnvelope(TokenAddress, con[s].checkpointId, ConsumerAddress)
       IN  con' = [con EXCEPT ![s] =
                IF r.ok
                THEN [Logged(@, "fetchEnvelope", TRUE) EXCEPT
                          !.keyEnvelope = r.val, !.pc = "redeem"]
                ELSE Failed(@, "fetchEnvelope", CauseOf(r), r.err)]
    /\ ConsumeFrame

\* mutant: the pre-flight fetch refreshes the consumer's index from storage
ConsumePreflightCaching(s) ==
    /\ con[s].pc = "preflight"
    /\ conIndex' = IF indexUri # 0 THEN loadIndex(conIndex, store, indexUri)
                   ELSE conIndex
    /\ LET r == fetchEnvelope(TokenAddress, con[s].checkpointId, ConsumerAddress)
       IN  con' = [con EXCEPT ![s] =
                IF r.ok
                THEN [Logged(@, "fetchEnvelope", TRUE) EXCEPT
                          !.keyEnvelope = r.val, !.pc = "redeem"]
                ELSE Failed(@, "fetchEnvelope", CauseOf(r),
                            "key envelope is not yet available")]
    /\ UNCHANGED <<store, checkpoints, redeemed, balance, chainEnvelopes,
                   mode, trail, verified, walk, checked, pubIndex, indexUri,
                   keys, fulfilled, nPublishes, nFulfills, pub, redeemCalls,
                   e2e>>

\* 2. pre-flight fetchEnvelope; any failure becomes the one message
ConsumePreflight(s) ==
    /\ con[s].pc = "preflight"
    /\ LET r == fetchEnvelope(TokenAddress, con[s].checkpointId, ConsumerAddress)
       IN  con' = [con EXCEPT ![s] =
                IF r.ok
                THEN [Logged(@, "fetchEnvelope", TRUE) EXCEPT
                          !.keyEnvelope = r.val, !.pc = "redeem"]
                ELSE Failed(@, "fetchEnvelope", CauseOf(r),
                            "key envelope is not yet available")]
    /\ ConsumeFrame

\* 3. redeem: the burn, or the revert of the transaction
ConsumeRedeem(s) ==
    /\ con[s].pc = "redeem"
    /\ LET r == ledgerRedeem(checkpoints, redeemed, balance, con[s].checkpointId)
       IN  /\ redeemed' = r.val.redeemed
           /\ balance' = r.val.balance
           /\ con' = [con EXCEPT ![s] =
                IF r.ok
                THEN [Logged(@, "redeem", TRUE) EXCEPT !.pc = "getCheckpoint"]
                ELSE Failed(@, "redeem", "absent", r.err)]
    /\ redeemCalls' =
           [redeemCalls EXCEPT ![con[s].checkpointId.n] =
                Append(@, ledgerRedeem(checkpoints, redeemed, balance,
                                       con[s].checkpointId).ok)]
    /\ UNCHANGED <<store, checkpoints, chainEnvelopes, mode, trail, verified,
                   walk, checked, pubIndex, conIndex, indexUri, keys,
                   fulfilled, nPublishes, nFulfills, pub, e2e>>

\* already redeemed (or the registry client): fetchEnvelope, errors passed on
ConsumeFetch(s) ==
    /\ con[s].pc = "fetch"
    /\ LET r == fetchEnvelope(EnvelopeToken(con[s]), con[s].checkpointId,
                              ConsumerAddress)
       IN  con' = [con EXCEPT ![s] =
                IF r.ok
                THEN [Logged(@, "fetchEnvelope", TRUE) EXCEPT
                          !.keyEnvelope = r.val, !.pc = "getCheckpoint"]
                ELSE Failed(@, "fetchEnvelope", CauseOf(r), r.err)]
    /\ ConsumeFrame

\* 4. getCheckpoint
ConsumeGetCheckpoint(s) ==
    /\ con[s].pc = "getCheckpoint"
    /\ LET r == ledgerGetCheckpoint(checkpoints, con[s].checkpointId)
       IN  con' = [con EXCEPT ![s] =
                IF r.ok
                THEN [Logged(@, "getCheckpoint", TRUE) EXCEPT
                          !.checkpoint = r.val, !.pc = "download"]
                ELSE Failed(@, "getCheckpoint", "absent", r.err)]
    /\ ConsumeFrame

\* 5.-11. the download has returned data: verify, unwrap, decrypt, verify
Downloaded(c, data) ==
    LET t == consumeTail(data, c.checkpoint, c.keyEnvelope, c.secretKey)
    IN  [Finish(Logged(c, "download", TRUE),
                [ok |-> t.ok, err |-> t.err, val |-> t.val])
            EXCEPT !.ciphertext = data, !.steps = t.steps]

ConsumeDownload(s) ==
    /\ con[s].pc = "download"
    /\ LET r == storageDownload(store, con[s].checkpoint.ciphertextUri)
       IN  con' = [con EXCEPT ![s] =
                IF r.ok THEN Downloaded(@, r.val)
                ELSE Failed(@, "download", "absent", r.err)]
    /\ ConsumeFrame

\* an untrusted storage backend answers with other bytes
ConsumeDownloadTampered(s, data) ==
    /\ con[s].pc = "download"
    /\ data # storageDownload(store, con[s].checkpoint.ciphertextUri).val
    /\ con' = [con EXCEPT ![s] = Downloaded(@, data)]
    /\ ConsumeFrame

\* mutant: a rejected call is awaited a second time before giving up
ConsumeCallFailsRetried(s) ==
    /\ con[s].pc \in {"hasRedeemed", "preflight", "redeem", "fetch",
                      "getCheckpoint", "download"}
    /\ LET op == IF con[s].pc \in {"preflight", "fetch"} THEN "fetchEnvelope"
                 ELSE con[s].pc
           err == IF con[s].pc = "preflight"
                  THEN "key envelope is not yet available"
                  ELSE "call failed"
           again == \A i \in DOMAIN con[s].calls : con[s].calls[i].ok
       IN  con' = [con EXCEPT ![s] =
                IF again THEN Logged(@, op, FALSE)
                ELSE Failed(@, op, "failed", err)]
    /\ redeemCalls' = IF con[s].pc = "redeem"
                      THEN [redeemCalls EXCEPT ![con[s].checkpointId.n] =
                                Append(@, FALSE)]
                      ELSE redeemCalls
    /\ UNCHANGED <<world, mode, trail, verified, walk, checked, fulfilled,
                   nPublishes, nFulfills, pub, e2e>>

\* the awaited collaborator call rejects (transport or RPC failure)
ConsumeCallFails(s) ==
    /\ con[s].pc \in {"hasRedeemed", "preflight", "redeem", "fetch",
                      "getCheckpoint", "download"}
    /\ LET op == IF con[s].pc \in {"preflight", "fetch"} THEN "fetchEnvelope"
                 ELSE con[s].pc
           err == IF con[s].pc = "preflight"
                  THEN "key envelope is not yet available"
                  ELSE "call failed"
       IN  con' = [con EXCEPT ![s] =
                Failed(@, op, "failed", err)]
    /\ redeemCalls' = IF con[s].pc = "redeem"
                      THEN [redeemCalls EXCEPT ![con[s].checkpointId.n] =
                                Append(@, FALSE)]
                      ELSE redeemCalls
    /\ UNCHANGED <<world, mode, trail, verified, walk, checked, fulfilled,
                   nPublishes, nFulfills, pub, e2e>>

\* the caller abandons the invocation while a call is awaited
ConsumeCancel(s) ==
    /\ InFlight(con[s])
    /\ con' = [con EXCEPT ![s] = Finish(@, Err("cancelled", NoCapsule))]
    /\ ConsumeFrame

(***************************************************************************)
(* The sealed-mode pipeline of the end-to-end tests: seal, upload,         *)
(* storeKey, fulfillRedemption, fetchEnvelope, unwrapKey, download,        *)
(* verifyAndDecrypt, over one Map-backed storage provider and one          *)
(* StorageKeyDelivery.                                                     *)
(***************************************************************************)
RECURSIVE Orderings(_)
Orderings(S) ==
    IF S = {} THEN {<<>>}
    ELSE UNION {{<<<<k, 10 * k>>>> \o o : o \in Orderings(S \ {k})} : k \in S}

\* every payload over at most MaxKeys keys, in every insertion order
E2ECapsules ==
    {MkCapsule("1.0.0", p) : p \in UNION {Orderings(S) : S \in SUBSET (1..MaxKeys)}}
        \cup {NoVersionCapsule}
E2ERecipients == {ConsumerSecretKey, OtherSecretKey}
E2ECheckpoint == MkId(1)

E2EFrame == UNCHANGED <<world, mode, trail, verified, walk, checked,
                        fulfilled, nPublishes, nFulfills, pub, con,
                        redeemCalls>>

E2EFail(r) == [e2e EXCEPT !.pc = "done", !.result = Err(r.err, NoCapsule)]

E2ESeal(capsule, recipient) ==
    /\ e2e.pc \in {"idle", "done"}
    /\ LET sealed == seal(capsule, NoMetadata, MkKey(1), 1)
           start == [IdleE2E EXCEPT !.capsule = capsule, !.recipient = recipient]
       IN  e2e' = IF sealed.ok
                  THEN [start EXCEPT !.pc = "upload", !.sealed = sealed.val]
                  ELSE [start EXCEPT !.pc = "done",
                                     !.result = Err(sealed.err, NoCapsule)]
    /\ E2EFrame

E2EUpload ==
    /\ e2e.pc = "upload"
    /\ LET up == storageUpload(e2e.st, e2e.sealed.ciphertext)
       IN  e2e' = [e2e EXCEPT !.pc = "storeKey", !.st = up.store, !.uri = up.uri]
    /\ E2EFrame

E2EStoreKey ==
    /\ e2e.pc = "storeKey"
    /\ e2e' = [e2e EXCEPT !.pc = "fulfill",
                          !.ks = storeKey(@, E2ECheckpoint, e2e.sealed.encryptionKey)]
    /\ E2EFrame

E2EFulfill ==
    /\ e2e.pc = "fulfill"
    /\ LET f == fulfillRedemption(e2e.ks, E2ECheckpoint, PublicKeyOf(e2e.recipient),
                                  PublisherSecretKey, 1)
           d == storageStoreEnvelope(e2e.index, e2e.st, TokenAddress, E2ECheckpoint,
                                     ConsumerAddress, f.val)
       IN  e2e' = IF f.ok
                  THEN [e2e EXCEPT !.pc = "fetch", !.st = d.store, !.index = d.index]
                  ELSE E2EFail(f)
    /\ E2EFrame

E2EFetch ==
    /\ e2e.pc = "fetch"
    /\ LET r == storageFetchEnvelope(e2e.index, e2e.st, TokenAddress, E2ECheckpoint,
                                     ConsumerAddress)
       IN  e2e' = IF r.ok THEN [e2e EXCEPT !.pc = "unwrap", !.keyEnvelope = r.val]
                  ELSE E2EFail(r)
    /\ E2EFrame

E2EUnwrap ==
    /\ e2e.pc = "unwrap"
    /\ LET r == unwrapKey(e2e.keyEnvelope, e2e.recipient)
       IN  e2e' = IF r.ok THEN [e2e EXCEPT !.pc = "download", !.key = r.val]
                  ELSE E2EFail(r)
    /\ E2EFrame

E2EDownload ==
    /\ e2e.pc = "download"
    /\ LET r == storageDownload(e2e.st, e2e.uri)
       IN  e2e' = IF r.ok THEN [e2e EXCEPT !.pc = "verify", !.ciphertext = r.val]
                  ELSE E2EFail(r)
    /\ E2EFrame

E2EVerify ==
    /\ e2e.pc = "verify"
    /\ e2e' = [e2e EXCEPT !.pc = "done",
                          !.result = verifyAndDecrypt(e2e.ciphertext, e2e.key,
                                                      e2e.sealed.stateCommitment,
                                                      e2e.sealed.contentHash)]
    /\ E2EFrame

Next ==
    \/ \E in \in PublishInputs : PublishStart(in[1], in[2], in[3])
    \/ PublishUpload
    \/ PublishUploadFails
    \/ PublishCheckpoint
    \/ PublishCheckpointFails
    \/ \E sc \in {pub.sealed.stateCommitment, DirectCommitment},
          ch \in {pub.sealed.contentHash, DirectCommitment} :
              PublishCheckpointDirect(sc, ch)
    \/ StoreKey
    \/ \E t \in {TokenAddress, RegistryAddress}, n \in CheckpointNumbers,
          pk \in {PublicKeyOf(ConsumerSecretKey), PublicKeyOf(OtherSecretKey)} :
              \/ Fulfill(t, MkId(n), pk)
              \/ FulfillStoreFails(t, MkId(n), pk)
    \/ PublishIndex
    \/ LoadIndex
    \/ \E n \in CheckpointNumbers : ManualRedeem(MkId(n))
    \/ \E s \in {Caller} :
          \/ \E client \in {"token", "registry"}, n \in CheckpointNumbers,
                sk \in {ConsumerSecretKey, OtherSecretKey}, hasSigner \in BOOLEAN :
                    ConsumeStart(s, client, MkId(n), sk, hasSigner)
          \/ ConsumeHasRedeemed(s)
          \/ ConsumePreflight(s)
          \/ ConsumeRedeem(s)
          \/ ConsumeFetch(s)
          \/ ConsumeGetCheckpoint(s)
          \/ ConsumeDownload(s)
          \/ \E u \in DOMAIN store : ConsumeDownloadTampered(s, store[u])
          \/ ConsumeDownloadTampered(s, JunkBytes)
          \/ ConsumeCallFails(s)
          \/ ConsumeCancel(s)

Spec == Init /\ [][Next]_vars

(***************************************************************************)
(* The sealed-mode pipeline next to publish.                               *)
(***************************************************************************)
InitSealed == Init /\ mode = "storage" /\ balance = MaxBalance

NextSealed ==
    \/ \E capsule \in E2ECapsules, recipient \in E2ERecipients :
          E2ESeal(capsule, recipient)
    \/ E2EUpload
    \/ E2EStoreKey
    \/ E2EFulfill
    \/ E2EFetch
    \/ E2EUnwrap
    \/ E2EDownload
    \/ E2EVerify
    \/ \E in \in PublishInputs : PublishStart(in[1], in[2], in[3])
    \/ PublishUpload
    \/ PublishUploadFails
    \/ PublishCheckpoint
    \/ PublishCheckpointFails

SpecSealed == InitSealed /\ [][NextSealed]_vars

(***************************************************************************)
(* The documented workflow, every call succeeding: the publisher publishes *)
(* and stores the key, watches for Redeemed events and fulfils each one;   *)
(* the consumer holds tokens and calls consume again and again.  A direct  *)
(* call of redeem is possible but nothing makes the consumer issue it.     *)
(***************************************************************************)
InitLive == Init /\ balance >= 1

LivePublish ==
    \E capsule \in {UnsortedCapsule, SortedCapsule} :
        PublishStart("token", capsule, NoMetadata)

\* the handler of a Redeemed event, for a checkpoint whose key is stored
FulfillOnRedeemed ==
    \E n \in CheckpointNumbers :
        /\ n \in redeemed
        /\ MapHas(keys, MkId(n))
        /\ Fulfill(TokenAddress, MkId(n), PublicKeyOf(ConsumerSecretKey))

\* the consumer asks for the first checkpoint, with the registered key pair
LiveConsumeStart ==
    ConsumeStart(Caller, "token", MkId(1), ConsumerSecretKey, TRUE)

LiveManualRedeem == \E n \in CheckpointNumbers : ManualRedeem(MkId(n))

LiveNext ==
    \/ LivePublish
    \/ PublishUpload
    \/ PublishCheckpoint
    \/ StoreKey
    \/ FulfillOnRedeemed
    \/ PublishIndex
    \/ LoadIndex
    \/ LiveManualRedeem
    \/ LiveConsumeStart
    \/ ConsumeHasRedeemed(Caller)
    \/ ConsumePreflight(Caller)
    \/ ConsumeRedeem(Caller)
    \/ ConsumeFetch(Caller)
    \/ ConsumeGetCheckpoint(Caller)
    \/ ConsumeDownload(Caller)

LiveSpec ==
    /\ InitLive
    /\ [][LiveNext]_vars
    /\ WF_vars(LivePublish)
    /\ WF_vars(PublishUpload)
    /\ WF_vars(PublishCheckpoint)
    /\ WF_vars(StoreKey)
    /\ WF_vars(FulfillOnRedeemed)
    /\ WF_vars(PublishIndex)
    /\ WF_vars(LoadIndex)
    /\ WF_vars(LiveConsumeStart)
    /\ WF_vars(ConsumeHasRedeemed(Caller))
    /\ WF_vars(ConsumePreflight(Caller))
    /\ WF_vars(ConsumeRedeem(Caller))
    /\ WF_vars(ConsumeFetch(Caller))
    /\ WF_vars(ConsumeGetCheckpoint(Caller))
    /\ WF_vars(ConsumeDownload(Caller))

(***************************************************************************)
(* Lineage verification (verify.ts).  The zero sentinel of an identifier   *)
(* is EmptyId, the predecessor the ledger gives the first checkpoint.      *)
(***************************************************************************)
\* of a CheckpointRecord the two fields the lineage functions read
LineageRecord(n, p, upper) ==
    [checkpointId |-> [n |-> n, upper |-> upper],
     predecessorId |-> [n |-> p, upper |-> upper]]

\* mutant: the links are compared as written, letter case included
RECURSIVE LineageLoopExact(_, _)
LineageLoopExact(cps, i) ==
    IF i >= Len(cps) THEN Len(cps)
    ELSE IF cps[i + 1].predecessorId # cps[i].checkpointId THEN i
    ELSE LineageLoopExact(cps, i + 1)

\* the for loop from index i on (indices as in the code, from 0): the index
\* at which it throws, or the length if it runs to the end
RECURSIVE LineageLoop(_, _)
LineageLoop(cps, i) ==
    IF i >= Len(cps) THEN Len(cps)
    ELSE IF toLowerCase(cps[i + 1].predecessorId) # toLowerCase(cps[i].checkpointId)
    THEN i
    ELSE LineageLoop(cps, i + 1)

verifyCheckpointLineage(cps) ==
    IF Len(cps) = 0
    THEN [ok |-> TRUE, err |-> "", index |-> 0]
    ELSE IF toLowerCase(cps[1].predecessorId) # EmptyId
    THEN [ok |-> FALSE, err |-> "first checkpoint predecessor must be zero",
          index |-> 0]
    ELSE IF LineageLoop(cps, 1) < Len(cps)
    THEN [ok |-> FALSE, err |-> "checkpoint lineage broken",
          index |-> LineageLoop(cps, 1)]
    ELSE [ok |-> TRUE, err |-> "", index |-> 0]

LineageRecords ==
    {LineageRecord(n, p, upper) : n \in 1..MaxIds, p \in 0..MaxIds, upper \in BOOLEAN}

\* the caller puts one more record at the end of the array it will pass
LineageInput(record) ==
    /\ verified.pc = "idle"
    /\ Len(verified.checkpoints) < MaxChain
    /\ verified' = [verified EXCEPT !.checkpoints = Append(@, record)]
    /\ UNCHANGED <<world, mode, trail, walk, checked, fulfilled, nPublishes,
                   nFulfills, pub, con, redeemCalls, e2e>>

VerifyLineage ==
    /\ verified.pc = "idle"
    /\ verified' = [verified EXCEPT
                        !.pc = "done",
                        !.result = verifyCheckpointLineage(verified.checkpoints)]
    /\ UNCHANGED <<world, mode, trail, walk, checked, fulfilled, nPublishes,
                   nFulfills, pub, con, redeemCalls, e2e>>

InitLineage == Init /\ mode = "storage" /\ balance = 0

NextLineage ==
    \/ \E record \in LineageRecords : LineageInput(record)
    \/ VerifyLineage

SpecLineage == InitLineage /\ [][NextLineage]_vars

(***************************************************************************)
(* The backward lineage walk (explorer.ts, MindstateExplorer.getLineage).  *)
(* The record source is the contract's getCheckpoint: any table from       *)
(* identifiers to a predecessorId, or to an empty record (publishedAt 0).  *)
(***************************************************************************)
LineageIds == {[n |-> n, upper |-> upper] : n \in 0..MaxIds, upper \in BOOLEAN}

NotPublished == [found |-> FALSE, predecessorId |-> EmptyId]

RecordSources ==
    [1..MaxIds -> {NotPublished}
                    \cup {[found |-> TRUE, predecessorId |-> p] : p \in LineageIds}]

\* ct.getCheckpoint(currentId): bytes32 arguments are matched by value
getCheckpoint(source, currentId) ==
    IF currentId.n \in DOMAIN source THEN source[currentId.n] ELSE NotPublished

parseCheckpointFromContract(checkpointId, cp) ==
    [checkpointId |-> checkpointId, predecessorId |-> cp.predecessorId]

WalkFrame == UNCHANGED <<world, mode, trail, verified, checked, fulfilled,
                         nPublishes, nFulfills, pub, con, redeemCalls, e2e>>

WalkStart(source, checkpointId, maxDepth) ==
    /\ walk.pc = "idle"
    /\ walk' = [IdleWalk EXCEPT !.pc = "loop", !.source = source,
                                !.checkpointId = checkpointId,
                                !.maxDepth = maxDepth,
                                !.currentId = checkpointId]
    /\ WalkFrame

\* mutant: the loop does not look at maxDepth
WalkContinuesUnbounded(w) == w.currentId # EmptyId

\* the while condition
WalkContinues(w) == w.currentId # EmptyId /\ Len(w.lineage) < w.maxDepth

\* mutant: the loop keeps no set of visited identifiers
WalkStepNoVisited ==
    /\ walk.pc = "loop"
    /\ WalkContinues(walk)
    /\ LET cp == getCheckpoint(walk.source, walk.currentId)
       IN  walk' =
             IF ~cp.found
             THEN [walk EXCEPT !.pc = "done", !.lookups = @ + 1,
                       !.result = [ok |-> FALSE, err |-> "checkpoint not found",
                                   at |-> walk.currentId]]
             ELSE [walk EXCEPT !.lookups = @ + 1,
                       !.lineage = Append(@, parseCheckpointFromContract(
                                                 walk.currentId, cp)),
                       !.currentId = cp.predecessorId]
    /\ WalkFrame

\* one iteration of the while loop
WalkStep ==
    /\ walk.pc = "loop"
    /\ WalkContinues(walk)
    /\ LET normalizedId == toLowerCase(walk.currentId)
           cp == getCheckpoint(walk.source, walk.currentId)
       IN  walk' =
             IF normalizedId \in walk.visited
             THEN [walk EXCEPT !.pc = "done",
                       !.result = [ok |-> FALSE, err |-> "cycle detected",
                                   at |-> walk.currentId]]
             ELSE IF ~cp.found
             THEN [walk EXCEPT !.pc = "done",
                       !.visited = @ \cup {normalizedId}, !.lookups = @ + 1,
                       !.result = [ok |-> FALSE, err |-> "checkpoint not found",
                                   at |-> walk.currentId]]
             ELSE [walk EXCEPT
                       !.visited = @ \cup {normalizedId}, !.lookups = @ + 1,
                       !.lineage = Append(@, parseCheckpointFromContract(
                                                 walk.currentId, cp)),
                       !.currentId = cp.predecessorId]
    /\ WalkFrame

\* the loop is left and the lineage collected so far is returned
WalkReturn ==
    /\ walk.pc = "loop"
    /\ ~WalkContinues(walk)
    /\ walk' = [walk EXCEPT !.pc = "done"]
    /\ WalkFrame

InitWalk == Init /\ mode = "storage" /\ balance = 0

\* getLineage is called, with any record source behind the contract
WalkCall ==
    /\ walk.pc = "idle"
    /\ \E source \in RecordSources, checkpointId \in LineageIds,
          maxDepth \in 0..MaxDepth :
          WalkStart(source, checkpointId, maxDepth)

NextWalk ==
    \/ WalkCall
    \/ WalkStep
    \/ WalkReturn

\* the event loop runs every pending continuation of the async function
SpecWalk ==
    /\ InitWalk
    /\ [][NextWalk]_vars
    /\ WF_vars(WalkStep)
    /\ WF_vars(WalkReturn)

(***************************************************************************)
(* The digest checks called on their own (verify.ts): any capsule or       *)
(* ciphertext against any expected digest, written in either letter case.  *)
(***************************************************************************)
toUpperCase(s) == [s EXCEPT !.upper = TRUE]

CheckedCiphertexts ==
    {encrypt(serializeCapsule(c).val, MkKey(1), 1).val :
        c \in {x \in E2ECapsules : assertValidCapsule(x) = ""}} \cup {JunkBytes}

\* digests a caller may expect: of any input, in either case, or zero
ExpectedDigests ==
    LET known == {computeStateCommitment(c) :
                     c \in {x \in E2ECapsules : assertValidCapsule(x) = ""}}
                   \cup {computeCiphertextHash(b) : b \in CheckedCiphertexts}
    IN  known \cup {toUpperCase(d) : d \in known} \cup {ZERO_BYTES32}

CheckedFrame == UNCHANGED <<world, mode, trail, verified, walk, fulfilled,
                            nPublishes, nFulfills, pub, con, redeemCalls, e2e>>

VerifyState(capsule, expectedCommitment) ==
    /\ checked' = [IdleChecked EXCEPT
                       !.pc = "done", !.fn = "verifyStateCommitment",
                       !.capsule = capsule,
                       !.result = verifyStateCommitment(capsule, expectedCommitment)]
    /\ CheckedFrame

VerifyCiphertext(ciphertext, expectedHash) ==
    /\ checked' = [IdleChecked EXCEPT
                       !.pc = "done", !.fn = "verifyCiphertextHash",
                       !.ciphertext = ciphertext,
                       !.result = verifyCiphertextHash(ciphertext, expectedHash)]
    /\ CheckedFrame

InitVerify == Init /\ mode = "storage" /\ balance = 0

NextVerify ==
    \/ \E capsule \in E2ECapsules, expected \in ExpectedDigests :
          VerifyState(capsule, expected)
    \/ \E ciphertext \in CheckedCiphertexts, expected \in ExpectedDigests :
          VerifyCiphertext(ciphertext, expected)

SpecVerify == InitVerify /\ [][NextVerify]_vars

(***************************************************************************)
(* The publisher key store in use (keyDelivery.ts, onChainKeyDelivery.ts). *)
(* storeKey and importKeys are public: the publisher may call them at any  *)
(* time, with any spelling of an identifier and any key.  The consumer     *)
(* calls fetchEnvelope of its delivery provider directly.                  *)
(***************************************************************************)
\* importKeys: the entries of the backup in order, each set under the
\* lower-cased identifier with the key its hex string spells
RECURSIVE importKeys(_, _)
importKeys(ks, backup) ==
    IF backup = <<>> THEN ks
    ELSE importKeys(MapSet(ks, toLowerCase(Head(backup)[1]),
                           KeyFromBytes(fromHex(Head(backup)[2]))),
                    Tail(backup))

KeyStoreIds == {MkId(1), toUpperCase(MkId(1)), MkId(2)}
StoredKeys == {MkKey(1), MkKey(2)}
BackupEntries == {<<id, toHex(KeyBytes(k))>> : id \in KeyStoreIds, k \in StoredKeys}
\* a backup object: one or two entries under different property names
Backups ==
    {<<e>> : e \in BackupEntries}
        \cup {p \in BackupEntries \X BackupEntries : p[1][1] # p[2][1]}

KeysFrame == UNCHANGED <<store, checkpoints, redeemed, balance, chainEnvelopes,
                         mode, fulfiller, delivered, fetched, applied, verified, walk, checked,
                         pubIndex, conIndex, indexUri, fulfilled, nPublishes,
                         nFulfills, pub, con, redeemCalls, e2e>>

\* keyManager.storeKey(checkpointId, key)
StoreKeyCall(checkpointId, key) ==
    /\ keys' = storeKey(keys, checkpointId, key)
    /\ written' = written \cup {<<toLowerCase(checkpointId), key>>}
    /\ KeysFrame

\* keyManager.importKeys(backup), PublisherKeyManager only
ImportKeys(backup) ==
    /\ mode = "storage"
    /\ keys' = importKeys(keys, backup)
    /\ written' = written \cup
           {<<toLowerCase(backup[i][1]), KeyFromBytes(fromHex(backup[i][2]))>> :
                i \in DOMAIN backup}
    /\ KeysFrame

\* keyDelivery.fetchEnvelope(params) called by the consumer
FetchEnvelope(tokenAddress, checkpointId, consumerAddress) ==
    /\ fetched' = [pc |-> "done", tokenAddress |-> tokenAddress,
                   checkpointId |-> checkpointId,
                   consumerAddress |-> consumerAddress,
                   result |-> fetchEnvelope(tokenAddress, checkpointId,
                                            consumerAddress)]
    /\ UNCHANGED <<world, mode, fulfiller, written, delivered, applied, verified, walk,
                   checked, fulfilled, nPublishes, nFulfills, pub, con,
                   redeemCalls, e2e>>

KeysPublish == PublishStart("token", SortedCapsule, NoMetadata)

\* a consumer public key one byte short
ShortPublicKey ==
    [id |-> ConsumerSecretKey.id, len |-> PUBLIC_KEY_LENGTH - 1]

KeysFulfill ==
    /\ nFulfills < MaxFulfills
    /\ \E t \in {TokenAddress, RegistryAddress}, id \in KeyStoreIds,
          pk \in {PublicKeyOf(ConsumerSecretKey), ShortPublicKey} :
              Fulfill(t, id, pk)

KeysRedeem == \E n \in CheckpointNumbers : ManualRedeem(MkId(n))

InitKeys == Init /\ balance = MaxBalance

NextKeys ==
    \/ \E id \in KeyStoreIds, key \in StoredKeys : StoreKeyCall(id, key)
    \/ \E backup \in Backups : ImportKeys(backup)
    \/ KeysPublish
    \/ PublishUpload
    \/ PublishCheckpoint
    \/ StoreKey
    \/ KeysRedeem
    \/ KeysFulfill
    \/ PublishIndex
    \/ LoadIndex
    \/ \E t \in {TokenAddress, RegistryAddress}, id \in KeyStoreIds :
           FetchEnvelope(t, id, ConsumerAddress)

SpecKeys == InitKeys /\ [][NextKeys]_vars

(***************************************************************************)
(* The pure functions of keyDelivery.ts and encryption.ts called on their  *)
(* own.  Here a string is the sequence of its characters.                  *)
(***************************************************************************)
IdChars == {"a", "A", ":"}
lowerChar(c) == IF c = "A" THEN "a" ELSE c
\* String.prototype.toLowerCase
lowerString(str) == [i \in DOMAIN str |-> lowerChar(str[i])]

\* mutant: the three parts are joined without a separator
envelopeIdInputUnseparated(tokenAddress, checkpointId, consumerAddress) ==
    lowerString(tokenAddress) \o lowerString(checkpointId)
        \o lowerString(consumerAddress)

\* computeEnvelopeId: the string `input` that is hashed
envelopeIdInput(tokenAddress, checkpointId, consumerAddress) ==
    lowerString(tokenAddress) \o <<":">> \o lowerString(checkpointId)
        \o <<":">> \o lowerString(consumerAddress)

IdStrings == UNION {[1..n -> IdChars] : n \in 1..MaxIdChars}
IdTriples == IdStrings \X IdStrings \X IdStrings

ApplyFrame == UNCHANGED <<world, mode, fulfiller, written, delivered, fetched, verified,
                          walk, checked, fulfilled, nPublishes, nFulfills,
                          pub, con, redeemCalls, e2e>>

\* computeEnvelopeId(tokenAddress, checkpointId, consumerAddress)
EnvelopeIdCall(triple) ==
    /\ applied' = [fn |-> "computeEnvelopeId", args |-> triple,
                   result |-> envelopeIdInput(triple[1], triple[2], triple[3])]
    /\ ApplyFrame

InitCodec == Init /\ mode = "storage" /\ balance = 0

\* one call is looked at, made in the initial state
CodecIdCall ==
    /\ applied = IdleApplied
    /\ \E triple \in IdTriples : EnvelopeIdCall(triple)

\* the bytes of an envelope's fields
CodecByteArrays == UNION {[1..n -> {0, 10, 255}] : n \in 0..MaxEnvelopeBytes}
\* '' is the identifier wrapKey leaves in the envelope
CodecEnvelopes ==
    [checkpointId : {EmptyId, MkId(1), toUpperCase(MkId(1))},
     wrappedKey : CodecByteArrays, nonce : CodecByteArrays,
     senderPublicKey : CodecByteArrays]

\* deserializeEnvelope(serializeEnvelope(envelope))
EnvelopeRoundTrip(envelope) ==
    /\ applied' = [fn |-> "roundTrip", args |-> envelope,
                   result |-> deserializeEnvelope(serializeEnvelope(envelope))]
    /\ ApplyFrame

CodecRoundTrip ==
    /\ applied = IdleApplied
    /\ \E envelope \in CodecEnvelopes : EnvelopeRoundTrip(envelope)

\* a hex field of the JSON: absent, "0x", "0x0a", "0xzz", "0x1z"
CodecHexFields ==
    {EmptyHex, toHex(<<>>), toHex(<<10>>),
     [pfx |-> TRUE, digits |-> <<NotHex, NotHex>>],
     [pfx |-> TRUE, digits |-> <<1, NotHex>>]}
\* the byte strings handed to deserializeEnvelope: JSON objects with the
\* four fields, and bytes that are no JSON
CodecInputs ==
    {EnvelopeBytes(json) :
        json \in [checkpointId : {EmptyId, MkId(1)}, wrappedKey : CodecHexFields,
                  nonce : CodecHexFields, senderPublicKey : CodecHexFields]}
        \cup {JunkBytes}

\* deserializeEnvelope(data)
DeserializeCall(data) ==
    /\ applied' = [fn |-> "deserializeEnvelope", args |-> data,
                   result |-> deserializeEnvelope(data)]
    /\ ApplyFrame

CodecDeserialize ==
    /\ applied = IdleApplied
    /\ \E data \in CodecInputs : DeserializeCall(data)

NextCodec ==
    \/ CodecIdCall
    \/ CodecRoundTrip
    \/ CodecDeserialize

SpecCodec == InitCodec /\ [][NextCodec]_vars

(***************************************************************************)
(* Index hand-over (keyDelivery.ts): the publisher's StorageKeyDelivery    *)
(* stores envelopes and publishes its index; a consumer's instance over    *)
(* the same storage, empty at first, loads published indexes, in any       *)
(* order and any number of times.                                          *)
(***************************************************************************)
\* the populated envelopes handed to storeEnvelope
IndexEnvelopes ==
    {[wrapKey(MkKey(k), PublicKeyOf(ConsumerSecretKey), PublisherSecretKey, k)
         EXCEPT !.checkpointId = id] : k \in 1..MaxKeys, id \in KeyStoreIds}

StoredEnvelopeUris == {u \in DOMAIN store : store[u].kind = "envelope"}
PublishedIndexUris == {u \in DOMAIN store : store[u].kind = "index"}

\* pub.storeEnvelope({tokenAddress, checkpointId, consumerAddress, envelope})
IndexStore(envelope) ==
    LET s == storageStoreEnvelope(pubIndex, store, TokenAddress,
                                  envelope.checkpointId, ConsumerAddress, envelope)
    IN  /\ store' = s.store
        /\ pubIndex' = s.index
        /\ delivered' = delivered \cup
               {[tokenAddress |-> TokenAddress,
                 checkpointId |-> envelope.checkpointId,
                 consumerAddress |-> ConsumerAddress, envelope |-> envelope,
                 uri |-> Len(store) + 1]}
        /\ UNCHANGED <<checkpoints, redeemed, balance, chainEnvelopes, mode, fulfiller,
                       written, fetched, applied, verified, walk, checked,
                       conIndex, indexUri, keys, fulfilled, nPublishes,
                       nFulfills, pub, con, redeemCalls, e2e>>

IndexStoreCall ==
    /\ Cardinality(StoredEnvelopeUris) < MaxStored
    /\ \E envelope \in IndexEnvelopes : IndexStore(envelope)

\* con.loadIndex(uri) for the URI some publishIndex call returned
IndexLoad(uri) ==
    /\ conIndex' = loadIndex(conIndex, store, uri)
    /\ UNCHANGED <<store, checkpoints, redeemed, balance, chainEnvelopes, mode,
                   trail, verified, walk, checked, pubIndex, indexUri, keys,
                   fulfilled, nPublishes, nFulfills, pub, con, redeemCalls, e2e>>

InitIndex == Init /\ mode = "storage" /\ balance = 0

NextIndex ==
    \/ IndexStoreCall
    \/ PublishIndex
    \/ \E uri \in PublishedIndexUris : IndexLoad(uri)

SpecIndex == InitIndex /\ [][NextIndex]_vars

(***************************************************************************)
(* The two KeyDeliveryProvider implementations used directly: one provider *)
(* object, StorageKeyDelivery or OnChainKeyDelivery by mode, on which      *)
(* storeEnvelope and fetchEnvelope are called.  The contract accepts an    *)
(* envelope only for a checkpoint the consumer has redeemed.               *)
(***************************************************************************)
\* the envelopes handed to storeEnvelope: as wrapKey returns them
\* (checkpointId '') or with an identifier set
ProviderEnvelopes ==
    {[wrapKey(MkKey(k), PublicKeyOf(ConsumerSecretKey), PublisherSecretKey, k)
         EXCEPT !.checkpointId = id] :
            k \in 1..MaxKeys, id \in KeyStoreIds \cup {EmptyId}}

\* provider.fetchEnvelope({tokenAddress, checkpointId, consumerAddress})
providerFetchEnvelope(tokenAddress, checkpointId, consumerAddress) ==
    IF mode = "storage"
    THEN storageFetchEnvelope(pubIndex, store, tokenAddress, checkpointId,
                              consumerAddress)
    ELSE onChainFetchEnvelope(chainEnvelopes, tokenAddress, checkpointId,
                              consumerAddress)

\* provider.storeEnvelope({tokenAddress, checkpointId, consumerAddress, envelope})
ProviderStore(checkpointId, envelope) ==
    LET s == storageStoreEnvelope(pubIndex, store, TokenAddress, checkpointId,
                                  ConsumerAddress, envelope)
        c == onChainStoreEnvelope(chainEnvelopes, redeemed, TokenAddress,
                                  checkpointId, ConsumerAddress, envelope)
        d == [tokenAddress |-> TokenAddress, checkpointId |-> checkpointId,
              consumerAddress |-> ConsumerAddress, envelope |-> envelope,
              uri |-> IF mode = "storage" THEN Len(store) + 1 ELSE 0]
    IN  /\ IF mode = "storage"
           THEN /\ store' = s.store
                /\ pubIndex' = s.index
                /\ delivered' = delivered \cup {d}
                /\ UNCHANGED chainEnvelopes
           ELSE /\ chainEnvelopes' = c.val
                /\ delivered' = IF c.ok THEN delivered \cup {d} ELSE delivered
                /\ UNCHANGED <<store, pubIndex>>
        /\ UNCHANGED <<checkpoints, redeemed, balance, mode, fulfiller, written, fetched,
                       applied, verified, walk, checked, conIndex, indexUri,
                       keys, fulfilled, nPublishes, nFulfills, pub, con,
                       redeemCalls, e2e>>

ProviderStoreCall ==
    /\ Cardinality(delivered) < MaxStored
    /\ \E checkpointId \in KeyStoreIds, envelope \in ProviderEnvelopes :
           ProviderStore(checkpointId, envelope)

InitProviders == Init /\ balance = MaxBalance

NextProviders ==
    \/ ProviderStoreCall
    \/ KeysPublish
    \/ PublishUpload
    \/ PublishCheckpoint
    \/ KeysRedeem

SpecProviders == InitProviders /\ [][NextProviders]_vars

(***************************************************************************)
(* The content key and the IV of every encryption (encryption.ts,          *)
(* sealed.ts, client.ts).  generateContentKey and the IV of encrypt are    *)
(* randomBytes: a draw is taken to differ from every earlier draw of the   *)
(* run, so the draw made after n earlier ones is the value n + 1.          *)
(* applied.calls lists the encrypt calls made so far, each with the key    *)
(* and the IV that are in its output and the key the operation returned.   *)
(***************************************************************************)
MaxEncryptions == 3

Encryptions == IF applied = IdleApplied THEN <<>> ELSE applied.calls

\* mutant: the content key is drawn once and kept for later operations
generateContentKeyCached(drawn) == MkKey(1)
generateContentKey(drawn) == MkKey(drawn + 1)

\* const iv = randomBytes(IV_LENGTH)
randomIv(drawn) == drawn + 1

EncryptCall(op, sealed) ==
    [op |-> op, key |-> sealed.ciphertext.key, iv |-> sealed.ciphertext.iv,
     encryptionKey |-> sealed.encryptionKey]

AfterEncrypt(op, sealed) ==
    IF sealed.ok
    THEN [fn |-> "encrypt",
          calls |-> Append(Encryptions, EncryptCall(op, sealed.val))]
    ELSE applied

DrawsCapsules == {SortedCapsule, UnsortedCapsule, NoVersionCapsule}

\* seal(capsule)
SealCall(capsule) ==
    /\ Len(Encryptions) < MaxEncryptions
    /\ LET drawn == Len(Encryptions)
           sealed == seal(capsule, NoMetadata, generateContentKey(drawn),
                          randomIv(drawn))
       IN  applied' = AfterEncrypt("seal", sealed)
    /\ ApplyFrame

\* sealAndUpload(capsule, storage)
SealAndUploadCall(capsule) ==
    /\ Len(Encryptions) < MaxEncryptions
    /\ LET drawn == Len(Encryptions)
           sealed == seal(capsule, NoMetadata, generateContentKey(drawn),
                          randomIv(drawn))
       IN  /\ applied' = AfterEncrypt("sealAndUpload", sealed)
           /\ store' = IF sealed.ok
                       THEN storageUpload(store, sealed.val.ciphertext).store
                       ELSE store
    /\ UNCHANGED <<checkpoints, redeemed, balance, chainEnvelopes, mode, fulfiller,
                   written, delivered, fetched, verified, walk, checked,
                   pubIndex, conIndex, indexUri, keys, fulfilled, nPublishes,
                   nFulfills, pub, con, redeemCalls, e2e>>

\* the synchronous head of publish, its draws made like those of seal
DrawsPublish(client, capsule) ==
    /\ pub.pc \in {"idle", "done"}
    /\ Len(Encryptions) < MaxEncryptions
    /\ LET drawn == Len(Encryptions)
           sealed == publishPrepare(capsule, NoMetadata,
                                    generateContentKey(drawn), randomIv(drawn))
       IN  /\ applied' = AfterEncrypt("publish", sealed)
           /\ pub' = IF sealed.ok
                     THEN [IdlePublish EXCEPT !.pc = "upload",
                                              !.client = client,
                                              !.capsule = capsule,
                                              !.base = Len(checkpoints),
                                              !.sealed = sealed.val]
                     ELSE [IdlePublish EXCEPT !.pc = "done",
                                              !.client = client,
                                              !.capsule = capsule,
                                              !.base = Len(checkpoints),
                                              !.result = Err(sealed.err, EmptyId)]
    /\ UNCHANGED <<world, mode, fulfiller, written, delivered, fetched, verified, walk,
                   checked, fulfilled, nPublishes, nFulfills, con,
                   redeemCalls, e2e>>

InitDraws == Init /\ mode = "storage" /\ balance = 0

NextDraws ==
    \/ \E capsule \in DrawsCapsules : SealCall(capsule)
    \/ \E capsule \in DrawsCapsules : SealAndUploadCall(capsule)
    \/ \E client \in {"token", "registry"}, capsule \in DrawsCapsules :
          DrawsPublish(client, capsule)
    \/ PublishUpload
    \/ PublishCheckpoint

SpecDraws == InitDraws /\ [][NextDraws]_vars

(***************************************************************************)
(* encrypt and decrypt called on their own (encryption.ts,                 *)
(* encryption.test.ts).  A ciphertext whose bytes were altered is one that *)
(* authenticates under no key.                                             *)
(***************************************************************************)
CipherPlaintexts ==
    {JsonBytes("", <<>>), JsonBytes("1.0.0", <<<<1, 10>>>>),
     JsonBytes("1.0.0", <<<<2, 20>>>>),
     JsonBytes("1.0.0", <<<<1, 10>>, <<2, 20>>>>)}
CipherKeys == {MkKey(1), MkKey(2)}
CipherBadKeys == {[id |-> 1, len |-> KEY_LENGTH - 16],
                  [id |-> 1, len |-> KEY_LENGTH + 1]}
Corrupted(sealed) == [sealed EXCEPT !.key = NoKey]
CipherOutputs ==
    {encrypt(p, k, iv).val :
        p \in CipherPlaintexts, k \in CipherKeys, iv \in {randomIv(0), randomIv(1)}}
CipherInputs ==
    CipherOutputs \cup {Corrupted(sealed) : sealed \in CipherOutputs}
        \cup {RawBytes(n) : n \in {0, 10, IV_LENGTH + AUTH_TAG_LENGTH - 1,
                                    IV_LENGTH + AUTH_TAG_LENGTH,
                                    IV_LENGTH + AUTH_TAG_LENGTH + 2}}

\* decrypt(sealed, key)
DecryptCall(sealed, key) ==
    /\ applied' = [fn |-> "decrypt", args |-> <<sealed, key>>,
                   result |-> decrypt(sealed, key)]
    /\ ApplyFrame

CipherDecrypt ==
    /\ applied = IdleApplied
    /\ \E sealed \in CipherInputs, key \in CipherKeys \cup CipherBadKeys :
          DecryptCall(sealed, key)

\* a = encrypt(plaintext, key); b = encrypt(plaintext, key); decrypt(a, key);
\* decrypt(b, key)
EncryptTwiceCall(plaintext, key) ==
    /\ LET a == encrypt(plaintext, key, randomIv(0))
           b == encrypt(plaintext, key, randomIv(1))
       IN  applied' = [fn |-> "encryptTwice", args |-> <<plaintext, key>>,
                       result |-> <<a, b>>,
                       decrypted |-> <<decrypt(a.val, key), decrypt(b.val, key)>>]
    /\ ApplyFrame

CipherEncryptTwice ==
    /\ applied = IdleApplied
    /\ \E plaintext \in CipherPlaintexts, key \in CipherKeys \cup CipherBadKeys :
          EncryptTwiceCall(plaintext, key)

NextCipher ==
    \/ CipherDecrypt
    \/ CipherEncryptTwice

SpecCipher == InitCodec /\ [][NextCipher]_vars

(***************************************************************************)
(* wrapKey and unwrapKey called on their own (encryption.ts,               *)
(* encryption.test.ts).                                                    *)
(***************************************************************************)
WrapSecretKeys == {ConsumerSecretKey, OtherSecretKey, PublisherSecretKey}
WrapContentKeys == {MkKey(1), MkKey(2), [id |-> 1, len |-> KEY_LENGTH - 16]}

\* envelope = wrapKey(contentKey, recipient.publicKey, sender.secretKey);
\* unwrapKey(envelope, opener.secretKey)
WrapUnwrapCall(contentKey, recipient, sender, opener, nonce) ==
    /\ LET envelope == wrapKey(contentKey, PublicKeyOf(recipient), sender, nonce)
       IN  applied' = [fn |-> "wrapUnwrap",
                       args |-> <<contentKey, recipient, sender, opener>>,
                       envelope |-> envelope,
                       result |-> unwrapKey(envelope, opener)]
    /\ ApplyFrame

WrapRoundTrip ==
    /\ applied = IdleApplied
    /\ \E contentKey \in WrapContentKeys, recipient \in WrapSecretKeys,
          sender \in WrapSecretKeys, opener \in WrapSecretKeys,
          nonce \in {randomIv(0), randomIv(1)} :
          WrapUnwrapCall(contentKey, recipient, sender, opener, nonce)

\* what can have happened to an envelope wrapped for the consumer before it
\* is unwrapped: nothing, an altered wrappedKey (its tag no longer fits, or
\* it is cut short), an altered nonce of the right or of another length, the
\* public key of another sender, a senderPublicKey of another length
WrappedForConsumer ==
    wrapKey(MkKey(1), PublicKeyOf(ConsumerSecretKey), PublisherSecretKey, 1)
EnvelopeCauses ==
    {"intact", "wrappedKey", "wrappedKey cut", "nonce", "nonce length",
     "senderPublicKey", "senderPublicKey length"}
Modified(envelope, cause) ==
    CASE cause = "wrappedKey" ->
            [envelope EXCEPT !.wrappedKey = [@ EXCEPT ![4] = 0]]
      [] cause = "wrappedKey cut" ->
            [envelope EXCEPT !.wrappedKey = SubSeq(@, 1, 4)]
      [] cause = "nonce" -> [envelope EXCEPT !.nonce = <<@[1] + 1>>]
      [] cause = "nonce length" -> [envelope EXCEPT !.nonce = <<>>]
      [] cause = "senderPublicKey" ->
            [envelope EXCEPT !.senderPublicKey =
                                  KeyBytes(PublicKeyOf(OtherSecretKey))]
      [] cause = "senderPublicKey length" ->
            [envelope EXCEPT !.senderPublicKey =
                                  <<@[1], PUBLIC_KEY_LENGTH - 1>>]
      [] OTHER -> envelope

\* unwrapKey(envelope, recipientSecretKey)
UnwrapCall(cause, recipientSecretKey) ==
    /\ applied' = [fn |-> "unwrapKey",
                   args |-> <<Modified(WrappedForConsumer, cause),
                              recipientSecretKey>>,
                   cause |-> cause,
                   result |-> unwrapKey(Modified(WrappedForConsumer, cause),
                                        recipientSecretKey)]
    /\ ApplyFrame

WrapUnwrapModified ==
    /\ applied = IdleApplied
    /\ \E cause \in EnvelopeCauses, recipientSecretKey \in WrapSecretKeys :
          UnwrapCall(cause, recipientSecretKey)

NextWrap ==
    \/ WrapRoundTrip
    \/ WrapUnwrapModified

SpecWrap == InitCodec /\ [][NextWrap]_vars

(***************************************************************************)
(* seal and the two publish flows called with a metadata value (sealed.ts, *)
(* client.ts, registryClient.ts).  A JSON scalar or array is a value with  *)
(* its canonical text for a version and no members.                        *)
(***************************************************************************)
ScalarValue(text) == [version |-> text, hasPayload |-> FALSE, payload |-> <<>>]
ScalarMetadata(text, truthy) ==
    [supplied |-> TRUE, truthy |-> truthy, value |-> ScalarValue(text)]

\* undefined; 0, false, ""; 1, true, "a", []; {}, {a: 10}, {b: 20, a: 10}
MetadataInputs ==
    {NoMetadata,
     ScalarMetadata("0", FALSE), ScalarMetadata("false", FALSE),
     ScalarMetadata("\"\"", FALSE),
     ScalarMetadata("1", TRUE), ScalarMetadata("true", TRUE),
     ScalarMetadata("\"a\"", TRUE), ScalarMetadata("[]", TRUE),
     ObjectMetadata(<<>>), ObjectMetadata(<<<<1, 10>>>>),
     ObjectMetadata(<<<<2, 20>>, <<1, 10>>>>)}
MetadataCapsules ==
    {SortedCapsule, UnsortedCapsule, NoVersionCapsule, NoPayloadCapsule}

\* seal(capsule, metadata)
MetadataSealCall(capsule, metadata) ==
    /\ applied' = [fn |-> "seal", args |-> <<capsule, metadata>>,
                   result |-> seal(capsule, metadata, generateContentKey(0),
                                   randomIv(0))]
    /\ ApplyFrame

\* client.publish(capsule, {metadata}) up to the sealed capsule
MetadataPublishCall(client, capsule, metadata) ==
    /\ applied' = [fn |-> client, args |-> <<capsule, metadata>>,
                   result |-> publishPrepare(capsule, metadata,
                                             generateContentKey(0), randomIv(0))]
    /\ ApplyFrame

MetadataSeal ==
    /\ applied = IdleApplied
    /\ \E capsule \in MetadataCapsules, metadata \in MetadataInputs :
          MetadataSealCall(capsule, metadata)

MetadataPublish ==
    /\ applied = IdleApplied
    /\ \E client \in {"token", "registry"}, capsule \in MetadataCapsules,
          metadata \in MetadataInputs :
          MetadataPublishCall(client, capsule, metadata)

NextMetadata ==
    \/ MetadataSeal
    \/ MetadataPublish

SpecMetadata == InitCodec /\ [][NextMetadata]_vars

(***************************************************************************)
(* Canonicalization of values that differ in the order of their keys       *)
(* (capsule.ts, commitment.ts, capsule.test.ts, commitment.test.ts).       *)
(***************************************************************************)
\* every way of writing the members down: any order, at every depth
RECURSIVE Reorderings(_)
Reorderings(pairs) ==
    IF pairs = <<>> THEN {<<>>}
    ELSE UNION {
           LET firsts == IF Len(pairs[i]) = 3
                         THEN {<<pairs[i][1], r, "object">> :
                                  r \in Reorderings(pairs[i][2])}
                         ELSE {pairs[i]}
           IN  {<<first>> \o rest :
                   first \in firsts, rest \in Reorderings(RemoveAt(pairs, i))}
           : i \in DOMAIN pairs}

\* {a: 10, b: 20}; {a: 10, b: 20, c: 30}; {a: {a: 10, b: 20}, b: 20};
\* {a: {a: {a: 10, b: 20}, b: 20}, b: 20}
FlatMembers == <<<<1, 10>>, <<2, 20>>>>
NestedMembers == <<<<1, FlatMembers, "object">>, <<2, 20>>>>
CanonicalValues ==
    {FlatMembers,
     <<<<1, 10>>, <<2, 20>>, <<3, 30>>>>,
     NestedMembers,
     <<<<1, NestedMembers, "object">>, <<2, 20>>>>}
ReorderedPairs ==
    UNION {Reorderings(v) \X Reorderings(v) : v \in CanonicalValues}

\* serializeCanonical, computeStateCommitment and computeMetadataHash of two
\* spellings of one value
CanonicalCall(a, b) ==
    /\ applied' = [fn |-> "canonical", args |-> <<a, b>>,
                   bytes |-> <<serializeCanonical(MkCapsule("", a)),
                               serializeCanonical(MkCapsule("", b))>>,
                   commitments |->
                       <<computeStateCommitment(MkCapsule("1.0.0", a)),
                         computeStateCommitment(MkCapsule("1.0.0", b))>>,
                   metadataHashes |-> <<computeMetadataHash(MkCapsule("", a)),
                                        computeMetadataHash(MkCapsule("", b))>>]
    /\ ApplyFrame

CanonicalCompare ==
    /\ applied = IdleApplied
    /\ \E p \in ReorderedPairs : CanonicalCall(p[1], p[2])

NextCanonical == CanonicalCompare

SpecCanonical == InitCodec /\ [][NextCanonical]_vars

(***************************************************************************)
(* Two consume invocations of one signer for the first checkpoint that may *)
(* overlap: each awaited call of one can fall between two of the other.    *)
(***************************************************************************)
OverlapConsumeStart(s) ==
    ConsumeStart(s, "token", MkId(1), ConsumerSecretKey, TRUE)

OverlapFulfill == Fulfill(TokenAddress, MkId(1), PublicKeyOf(ConsumerSecretKey))

InitOverlap == Init /\ balance = MaxBalance

NextOverlap ==
    \/ KeysPublish
    \/ PublishUpload
    \/ PublishCheckpoint
    \/ StoreKey
    \/ OverlapFulfill
    \/ PublishIndex
    \/ LoadIndex
    \/ \E s \in Slots :
          \/ OverlapConsumeStart(s)
          \/ ConsumeHasRedeemed(s)
          \/ ConsumePreflight(s)
          \/ ConsumeRedeem(s)
          \/ ConsumeFetch(s)
          \/ ConsumeGetCheckpoint(s)
          \/ ConsumeDownload(s)

SpecOverlap == InitOverlap /\ [][NextOverlap]_vars

(***************************************************************************)
(* withRetry of the on-chain auto-fulfiller (auto-fulfiller-onchain.ts).   *)
(* applied holds the call in progress: the attempt about to be made, the   *)
(* outcome of every attempt made and every delay slept.  An attempt that   *)
(* succeeds returns its own number.                                        *)
(***************************************************************************)
MaxAttempts == 7

RetryErrors == {"timeout", "network error", "execution reverted"}

isNonRetryable(msg) ==
    msg \in {"insufficient funds", "nonce too low", "execution reverted",
             "UNPREDICTABLE_GAS_LIMIT", "already known"}

\* mutant: the delay keeps doubling
backoffDelayUncapped(attempt) == 1000 * 2 ^ (attempt - 1)
\* Math.min(1000 * 2 ** (attempt - 1), 30_000)
backoffDelay(attempt) ==
    IF 1000 * 2 ^ (attempt - 1) < 30000 THEN 1000 * 2 ^ (attempt - 1)
    ELSE 30000

\* throw lastError with no attempt made: lastError is undefined
NoAttemptError == "undefined"

\* withRetry(label, fn, maxAttempts) up to the first call of fn
RetryStart(maxAttempts) ==
    /\ applied = IdleApplied
    /\ applied' = [fn |-> "withRetry", maxAttempts |-> maxAttempts,
                   attempt |-> 1, outcomes |-> <<>>, delays |-> <<>>,
                   pc |-> IF 1 <= maxAttempts THEN "call" ELSE "done",
                   result |-> IF 1 <= maxAttempts THEN Ok(0)
                              ELSE Err(NoAttemptError, 0)]
    /\ ApplyFrame

\* await fn() returns
RetryAttemptReturns ==
    /\ applied # IdleApplied
    /\ applied.fn = "withRetry"
    /\ applied.pc = "call"
    /\ applied' = [applied EXCEPT
                       !.outcomes = Append(@, Ok(applied.attempt)),
                       !.pc = "done",
                       !.result = Ok(applied.attempt)]
    /\ ApplyFrame

\* await fn() throws err
RetryAttemptThrows(err) ==
    /\ applied # IdleApplied
    /\ applied.fn = "withRetry"
    /\ applied.pc = "call"
    /\ applied' =
          IF isNonRetryable(err) \/ applied.attempt >= applied.maxAttempts
          THEN [applied EXCEPT !.outcomes = Append(@, Err(err, 0)),
                               !.pc = "done",
                               !.result = Err(err, 0)]
          ELSE [applied EXCEPT !.outcomes = Append(@, Err(err, 0)),
                               !.pc = "sleep"]
    /\ ApplyFrame

\* await sleep(delayMs), attempt++
RetrySleep ==
    /\ applied # IdleApplied
    /\ applied.fn = "withRetry"
    /\ applied.pc = "sleep"
    /\ applied' = [applied EXCEPT
                       !.delays = Append(@, backoffDelay(applied.attempt)),
                       !.attempt = @ + 1,
                       !.pc = "call"]
    /\ ApplyFrame

NextRetry ==
    \/ \E maxAttempts \in 0..MaxAttempts : RetryStart(maxAttempts)
    \/ RetryAttemptReturns
    \/ \E err \in RetryErrors : RetryAttemptThrows(err)
    \/ RetrySleep

SpecRetry == InitCodec /\ [][NextRetry]_vars

(***************************************************************************)
(* verifyAndDecrypt and unseal called on their own (verify.ts, sealed.ts,  *)
(* integration.test.ts): the ciphertext of a capsule, that of another      *)
(* capsule, altered and raw bytes; the key, another key, a short key; the  *)
(* commitments of the capsule and the all-zero digest.                     *)
(***************************************************************************)
UnsealCapsule == SortedCapsule
UnsealCiphertext ==
    encrypt(serializeCapsule(UnsealCapsule).val, MkKey(1), randomIv(0)).val
UnsealCiphertexts ==
    {UnsealCiphertext,
     encrypt(serializeCapsule(UnsortedCapsule).val, MkKey(1), randomIv(1)).val,
     Corrupted(UnsealCiphertext),
     RawBytes(IV_LENGTH + AUTH_TAG_LENGTH), JunkBytes}
UnsealKeys == {MkKey(1), MkKey(2), [id |-> 1, len |-> KEY_LENGTH - 16]}
UnsealHashes == {computeCiphertextHash(UnsealCiphertext), ZERO_BYTES32}
UnsealCommitments == {computeStateCommitment(UnsealCapsule), ZERO_BYTES32}

\* verifyAndDecrypt(ciphertext, key, expectedStateCommitment,
\* expectedCiphertextHash)
VerifyAndDecryptCall(ciphertext, key, stateCommitment, ciphertextHash) ==
    /\ applied' = [fn |-> "verifyAndDecrypt",
                   args |-> <<ciphertext, key, stateCommitment, ciphertextHash>>,
                   supplied |-> <<TRUE, TRUE>>,
                   steps |-> StepsRun(ciphertext, key, stateCommitment,
                                      ciphertextHash, TRUE, TRUE),
                   result |-> verifyAndDecrypt(ciphertext, key, stateCommitment,
                                               ciphertextHash)]
    /\ ApplyFrame

\* unseal(ciphertext, key, stateCommitment?, ciphertextHash?)
UnsealCall(ciphertext, key, stateCommitment, ciphertextHash, hasState, hasHash) ==
    /\ applied' = [fn |-> "unseal",
                   args |-> <<ciphertext, key, stateCommitment, ciphertextHash>>,
                   supplied |-> <<hasState, hasHash>>,
                   steps |-> StepsRun(ciphertext, key, stateCommitment,
                                      ciphertextHash, hasState, hasHash),
                   result |-> unseal(ciphertext, key, stateCommitment,
                                     ciphertextHash, hasState, hasHash)]
    /\ ApplyFrame

UnsealVerifyAndDecrypt ==
    /\ applied = IdleApplied
    /\ \E ciphertext \in UnsealCiphertexts, key \in UnsealKeys,
          stateCommitment \in UnsealCommitments, ciphertextHash \in UnsealHashes :
          VerifyAndDecryptCall(ciphertext, key, stateCommitment, ciphertextHash)

UnsealUnseal ==
    /\ applied = IdleApplied
    /\ \E ciphertext \in UnsealCiphertexts, key \in UnsealKeys,
          stateCommitment \in UnsealCommitments, ciphertextHash \in UnsealHashes,
          hasState \in BOOLEAN, hasHash \in BOOLEAN :
          UnsealCall(ciphertext, key, stateCommitment, ciphertextHash,
                     hasState, hasHash)

NextUnseal ==
    \/ UnsealVerifyAndDecrypt
    \/ UnsealUnseal

SpecUnseal == InitCodec /\ [][NextUnseal]_vars

(***************************************************************************)
(* The on-chain auto-fulfiller: catch-up from CREATED_AT_BLOCK, then the   *)
(* sequential polling loop.  The chain it watches is the ledger above      *)
(* with a head block and the Redeemed events it logged; every redeem       *)
(* mines a block.  The consumer has registered its encryption key.         *)
(***************************************************************************)
MaxBlocks == 3
\* MAX_RETRIES, the maxAttempts of withRetry
MaxRetries == 2

DeliveryErrors == {"timeout", "insufficient funds"}

Redeemed(block, checkpointId) ==
    [block |-> block, account |-> ConsumerAddress, checkpointId |-> checkpointId]

PairOf(ev) == <<ev.account.n, ev.checkpointId.n>>

\* contract.hasKeyEnvelope(account, checkpointId)
ledgerHasKeyEnvelope(envs, account, checkpointId) ==
    MapHas(envs, <<account.n, checkpointId.n>>)

\* contract.queryFilter(filter, fromBlock, toBlock): the events in block order
RECURSIVE queryFilter(_, _, _)
queryFilter(events, fromBlock, toBlock) ==
    IF fromBlock > toBlock THEN <<>>
    ELSE LET here == {ev \in events : ev.block = fromBlock}
         IN  (IF here = {} THEN <<>> ELSE <<CHOOSE ev \in here : TRUE>>)
                 \o queryFilter(events, fromBlock + 1, toBlock)

\* catchUp, phase 2: the first event of every account:checkpointId pair
RECURSIVE Deduplicate(_, _)
Deduplicate(evs, seen) ==
    IF evs = <<>> THEN <<>>
    ELSE IF PairOf(Head(evs)) \in seen THEN Deduplicate(Tail(evs), seen)
    ELSE <<Head(evs)>> \o Deduplicate(Tail(evs), seen \cup {PairOf(Head(evs))})

FulfillerFrame ==
    UNCHANGED <<store, checkpoints, mode, written, delivered, fetched, applied,
                verified, walk, checked, pubIndex, conIndex, indexUri, keys,
                fulfilled, nPublishes, nFulfills, pub, con, redeemCalls, e2e>>

\* a consumer redeems a checkpoint: the block is mined, the event is logged
WatchRedeem(n) ==
    /\ fulfiller.head < MaxBlocks
    /\ ledgerRedeem(checkpoints, redeemed, balance, MkId(n)).ok
    /\ redeemed' = ledgerRedeem(checkpoints, redeemed, balance, MkId(n)).val.redeemed
    /\ balance' = ledgerRedeem(checkpoints, redeemed, balance, MkId(n)).val.balance
    /\ fulfiller' = [fulfiller EXCEPT
           !.head = @ + 1,
           !.events = @ \cup {Redeemed(fulfiller.head + 1, MkId(n))}]
    /\ UNCHANGED chainEnvelopes
    /\ FulfillerFrame

\* a block without a Redeemed event of this token
MineBlock ==
    /\ fulfiller.head < MaxBlocks
    /\ fulfiller' = [fulfiller EXCEPT !.head = @ + 1]
    /\ UNCHANGED <<chainEnvelopes, redeemed, balance>>
    /\ FulfillerFrame

\* main up to the catch-up loop: the key store is loaded, the head is read,
\* and the range CREATED_AT_BLOCK..head is collected when it is set and not
\* ahead of the head
FulfillerStart(createdAt) ==
    /\ fulfiller.pc = "off"
    /\ fulfiller' = [fulfiller EXCEPT
           !.pc = "catchUp", !.step = "next", !.ks = keys,
           !.createdAt = createdAt,
           !.catchUpTo = fulfiller.head,
           !.queue = IF createdAt >= 1 /\ createdAt <= fulfiller.head
                     THEN Deduplicate(queryFilter(fulfiller.events, createdAt,
                                                  fulfiller.head), {})
                     ELSE <<>>]
    /\ UNCHANGED <<chainEnvelopes, redeemed, balance>>
    /\ FulfillerFrame

InLoop == fulfiller.pc \in {"catchUp", "batch"}

\* handleRedemption up to withRetry: the duplicate guard and the key guard
HandleRedemption ==
    /\ InLoop
    /\ fulfiller.step = "next"
    /\ ~fulfiller.shutdownRequested
    /\ fulfiller.queue # <<>>
    /\ LET ev == Head(fulfiller.queue)
           skip == \/ ledgerHasKeyEnvelope(chainEnvelopes, ev.account, ev.checkpointId)
                   \/ ~MapHas(fulfiller.ks, toLowerCase(ev.checkpointId))
       IN  fulfiller' = [fulfiller EXCEPT
               !.handled = @ \cup {ev},
               !.queue = IF skip THEN Tail(@) ELSE @,
               !.step = IF skip THEN "next" ELSE "deliver",
               !.attempt = IF skip THEN 0 ELSE 1]
    /\ UNCHANGED <<chainEnvelopes, redeemed, balance>>
    /\ FulfillerFrame

\* the envelope an attempt wraps, and the transaction that carries it
EnvelopeFor(ev) ==
    fulfillRedemption(fulfiller.ks, ev.checkpointId,
                      PublicKeyOf(ConsumerSecretKey), PublisherSecretKey,
                      Len(fulfiller.txs) + 1).val
Tx(ev) ==
    [pair |-> PairOf(ev), envelope |-> EnvelopeFor(ev),
     onChain |-> ledgerHasKeyEnvelope(chainEnvelopes, ev.account, ev.checkpointId),
     attempt |-> fulfiller.attempt]

\* withRetry after an attempt threw: the next attempt, or the error that
\* handleRedemption catches and logs
AfterThrow(f, ev, err) ==
    IF isNonRetryable(err) \/ f.attempt >= MaxRetries
    THEN [f EXCEPT !.failed = @ \cup {ev}, !.queue = Tail(@),
                   !.step = "next", !.attempt = 0]
    ELSE [f EXCEPT !.attempt = @ + 1]

\* an attempt: deliverKeyEnvelope is sent and tx.wait() resolves
DeliverReturns ==
    /\ InLoop
    /\ fulfiller.step = "deliver"
    /\ LET ev == Head(fulfiller.queue)
           res == onChainStoreEnvelope(chainEnvelopes, redeemed, TokenAddress,
                      ev.checkpointId, ev.account, EnvelopeFor(ev))
       IN  /\ res.ok
           /\ chainEnvelopes' = res.val
           /\ fulfiller' = [fulfiller EXCEPT
                  !.txs = Append(@, Tx(ev)), !.queue = Tail(@),
                  !.step = "next", !.attempt = 0]
    /\ UNCHANGED <<redeemed, balance>>
    /\ FulfillerFrame

\* an attempt: the provider rejects the send, no transaction goes out
DeliverSendThrows(err) ==
    /\ InLoop
    /\ fulfiller.step = "deliver"
    /\ fulfiller' = AfterThrow(fulfiller, Head(fulfiller.queue), err)
    /\ UNCHANGED <<chainEnvelopes, redeemed, balance>>
    /\ FulfillerFrame

\* an attempt: the transaction is sent and tx.wait() rejects while it is
\* still in the mempool
DeliverWaitThrows ==
    /\ InLoop
    /\ fulfiller.step = "deliver"
    /\ LET ev == Head(fulfiller.queue)
       IN  fulfiller' = AfterThrow(
               [fulfiller EXCEPT !.txs = Append(@, Tx(ev)),
                                 !.pending = @ \cup {Tx(ev)}],
               ev, "timeout")
    /\ UNCHANGED <<chainEnvelopes, redeemed, balance>>
    /\ FulfillerFrame

\* a transaction left in the mempool is mined
TxMined ==
    /\ \E tx \in fulfiller.pending :
          /\ chainEnvelopes' =
                 onChainStoreEnvelope(chainEnvelopes, redeemed, TokenAddress,
                     MkId(tx.pair[2]), MkId(tx.pair[1]), tx.envelope).val
          /\ fulfiller' = [fulfiller EXCEPT !.pending = @ \ {tx}]
    /\ UNCHANGED <<redeemed, balance>>
    /\ FulfillerFrame

\* main after catchUp: return on shutdown, else lastBlock is the head now
CatchUpEnd ==
    /\ fulfiller.pc = "catchUp"
    /\ fulfiller.step = "next"
    /\ fulfiller.queue = <<>> \/ fulfiller.shutdownRequested
    /\ fulfiller' =
          IF fulfiller.shutdownRequested
          THEN [fulfiller EXCEPT !.pc = "stopped",
                                 !.broke = fulfiller.queue # <<>>]
          ELSE [fulfiller EXCEPT !.pc = "poll", !.lastBlock = fulfiller.head,
                                 !.liveFrom = fulfiller.head]
    /\ UNCHANGED <<chainEnvelopes, redeemed, balance>>
    /\ FulfillerFrame

\* pollOnce up to its loop: nothing to do at the same head, else the range
\* lastBlock + 1 .. currentBlock is queried
PollOnce ==
    /\ fulfiller.pc = "poll"
    /\ ~fulfiller.shutdownRequested
    /\ fulfiller.head > fulfiller.lastBlock
    /\ fulfiller' = [fulfiller EXCEPT
           !.pc = "batch", !.step = "next", !.toBlock = fulfiller.head,
           !.broke = FALSE,
           !.queue = queryFilter(fulfiller.events, fulfiller.lastBlock + 1,
                                 fulfiller.head)]
    /\ UNCHANGED <<chainEnvelopes, redeemed, balance>>
    /\ FulfillerFrame

\* pollOnce after its loop, left at the end or by the shutdown break
BatchEnd ==
    /\ fulfiller.pc = "batch"
    /\ fulfiller.step = "next"
    /\ fulfiller.queue = <<>> \/ fulfiller.shutdownRequested
    /\ fulfiller' = [fulfiller EXCEPT
           !.lastBlock = fulfiller.toBlock,
           !.broke = fulfiller.queue # <<>>,
           !.pc = IF fulfiller.shutdownRequested THEN "stopped" ELSE "poll"]
    /\ UNCHANGED <<chainEnvelopes, redeemed, balance>>
    /\ FulfillerFrame

\* SIGINT: with a delivery in flight the handler waits for it and the loop
\* goes on to its shutdown test; with none the process exits
Shutdown ==
    /\ fulfiller.pc \in {"catchUp", "batch", "poll"}
    /\ ~fulfiller.shutdownRequested
    /\ fulfiller' =
          IF fulfiller.step = "deliver"
          THEN [fulfiller EXCEPT !.shutdownRequested = TRUE]
          ELSE [fulfiller EXCEPT !.shutdownRequested = TRUE, !.pc = "stopped"]
    /\ UNCHANGED <<chainEnvelopes, redeemed, balance>>
    /\ FulfillerFrame

InitWatcher == Init /\ mode = "onchain" /\ balance = MaxBalance

NextWatcher ==
    \/ KeysPublish
    \/ PublishUpload
    \/ PublishCheckpoint
    \/ StoreKey
    \/ \E n \in CheckpointNumbers : WatchRedeem(n)
    \/ MineBlock
    \/ \E createdAt \in 0..MaxBlocks : FulfillerStart(createdAt)
    \/ HandleRedemption
    \/ DeliverReturns
    \/ \E err \in DeliveryErrors : DeliverSendThrows(err)
    \/ DeliverWaitThrows
    \/ TxMined
    \/ CatchUpEnd
    \/ PollOnce
    \/ BatchEnd
    \/ Shutdown

SpecWatcher == InitWatcher /\ [][NextWatcher]_vars

(***************************************************************************)
(* Properties.                                                             *)
(***************************************************************************)
HasCall(c, op) == \E i \in DOMAIN c.calls : c.calls[i].op = op

IsPrefix(a, b) == Len(a) <= Len(b) /\ a = SubSeq(b, 1, Len(a))

ConsumeSteps ==
    <<"verifyCiphertextHash", "unwrapKey", "decrypt", "deserializeCapsule",
      "verifyStateCommitment">>

\* C1: in MindstateClient.consume a redeem call is issued (awaited or
\* logged) only in an invocation whose hasRedeemed returned false and whose
\* pre-flight fetchEnvelope has already returned successfully; redeem never
\* precedes that successful fetchEnvelope.
C1_RedeemOnlyAfterEnvelope ==
    \A s \in Slots :
        LET c == con[s]
        IN  (c.pc = "redeem" \/ HasCall(c, "redeem")) =>
                /\ c.client = "token"
                /\ ~c.alreadyRedeemed
                /\ Len(c.calls) >= 2
                /\ c.calls[1] = Call("hasRedeemed", TRUE)
                /\ c.calls[2] = Call("fetchEnvelope", TRUE)
                /\ c.keyEnvelope # NoEnvelope
                /\ \A i \in DOMAIN c.calls : c.calls[i].op = "redeem" => i = 3

\* a consume invocation whose redeem call burned the token
C1_Witness ==
    \E s \in Slots : \E i \in DOMAIN con[s].calls :
        con[s].calls[i] = Call("redeem", TRUE)

\* hasRedeemed returned false and the pre-flight fetchEnvelope failed
PreflightFailed(c) ==
    /\ c.client = "token"
    /\ ~c.alreadyRedeemed
    /\ Len(c.calls) >= 2
    /\ c.calls[1] = Call("hasRedeemed", TRUE)
    /\ c.calls[2] = Call("fetchEnvelope", FALSE)

\* C2: when hasRedeemed is false and the pre-flight fetchEnvelope fails,
\* consume has failed with the envelope-not-yet-available error and made no
\* redeem, getCheckpoint or download call in that invocation.
C2_PreflightFailureStops ==
    \A s \in Slots :
        LET c == con[s]
        IN  PreflightFailed(c) =>
                /\ c.pc = "done"
                /\ ~c.result.ok
                /\ c.result.err = "key envelope is not yet available"
                /\ Len(c.calls) = 2
                /\ c.checkpoint = NoCheckpoint
                /\ c.ciphertext = JunkBytes
                /\ c.steps = <<>>

\* the pre-flight failed for a published checkpoint whose envelope is missing
C2_Witness ==
    \E s \in Slots :
        /\ PreflightFailed(con[s])
        /\ con[s].checkpointId.n \in DOMAIN checkpoints

\* C3: both clients' consume returns a capsule only if, for the record read
\* by getCheckpoint in the same invocation, the hash of the downloaded
\* ciphertext equals record.ciphertextHash and the commitment of the
\* returned capsule equals record.stateCommitment; the steps run in the
\* order getCheckpoint, download, verifyCiphertextHash, unwrapKey, decrypt,
\* deserializeCapsule, verifyStateCommitment, and the first failing step is
\* the last one run.
C3_ReturnOnlyVerified ==
    \A s \in Slots :
        LET c == con[s]
            n == Len(c.calls)
        IN  /\ IsPrefix(c.steps, ConsumeSteps)
            /\ c.steps # <<>> =>
                   /\ n >= 2
                   /\ c.calls[n] = Call("download", TRUE)
                   /\ c.calls[n - 1] = Call("getCheckpoint", TRUE)
                   /\ c.checkpoint = ledgerGetCheckpoint(checkpoints, c.checkpointId).val
            /\ (c.pc = "done" /\ c.result.ok) =>
                   /\ c.steps = ConsumeSteps
                   /\ computeCiphertextHash(c.ciphertext) = c.checkpoint.ciphertextHash
                   /\ computeStateCommitment(c.result.val) = c.checkpoint.stateCommitment
            /\ (c.steps # <<>>
                  /\ computeCiphertextHash(c.ciphertext) # c.checkpoint.ciphertextHash) =>
                   /\ ~c.result.ok
                   /\ c.steps = <<"verifyCiphertextHash">>
            /\ (c.steps = ConsumeSteps /\ ~c.result.ok) =>
                   c.result.err = "state commitment mismatch"

\* the token client's consume returned a capsule
C3_Witness ==
    \E s \in Slots :
        /\ con[s].pc = "done"
        /\ con[s].result.ok
        /\ con[s].client = "token"
        /\ con[s].result.val.payload # <<>>

\* C5: when hasRedeemed returned true, consume never awaits or makes a redeem
\* call and its next call is fetchEnvelope; one invocation calls redeem at
\* most once.
C5_NoRedeemWhenRedeemed ==
    \A s \in Slots :
        LET c == con[s]
            made == Cardinality({i \in DOMAIN c.calls : c.calls[i].op = "redeem"})
        IN  /\ c.alreadyRedeemed =>
                   /\ c.pc \notin {"preflight", "redeem"}
                   /\ ~HasCall(c, "redeem")
                   /\ Len(c.calls) >= 2 => c.calls[2].op = "fetchEnvelope"
            /\ made + (IF c.pc = "redeem" THEN 1 ELSE 0) <= 1

\* consume completed through the already-redeemed branch
C5_Witness ==
    \E s \in Slots :
        /\ con[s].alreadyRedeemed
        /\ con[s].pc = "done"
        /\ con[s].result.ok

\* the outcomes of the redeem calls consume has made for checkpoint n
RedeemOutcomes(n) == {redeemCalls[n][i] : i \in DOMAIN redeemCalls[n]}

\* once a redeem call of consume has succeeded for a checkpoint, an
\* invocation for it that has read hasRedeemed is in the already-redeemed
\* branch, unless it is the one that made the call
ReentersRedeemedBranch ==
    \A s \in Slots :
        LET c == con[s]
        IN  (/\ c.client = "token"
             /\ c.checkpointId.n \in CheckpointNumbers
             /\ TRUE \in RedeemOutcomes(c.checkpointId.n)
             /\ ~HasCall(c, "redeem")
             /\ Len(c.calls) >= 1
             /\ c.calls[1] = Call("hasRedeemed", TRUE)) =>
                /\ c.alreadyRedeemed
                /\ c.pc \notin {"preflight", "redeem"}

\* C6 (as amended): after a redeem call of consume succeeded, a later consume
\* for the same checkpoint observes hasRedeemed = true and issues no redeem;
\* over non-overlapping invocations a successful redeem call is the last
\* redeem call issued for its checkpoint.
C6_NoRedeemAfterSuccess ==
    /\ ReentersRedeemedBranch
    /\ \A n \in CheckpointNumbers :
           \A i \in DOMAIN redeemCalls[n] :
               redeemCalls[n][i] => i = Len(redeemCalls[n])

\* C6 (as stated): ... and over non-overlapping invocations redeem is issued
\* at most once per (consumer, checkpoint).
C6_RedeemIssuedAtMostOnce ==
    /\ ReentersRedeemedBranch
    /\ \A n \in CheckpointNumbers : Len(redeemCalls[n]) <= 1

\* a later consume completed through the already-redeemed branch after an
\* earlier consume had burned the token for the checkpoint
C6_Witness ==
    \E s \in Slots :
        /\ con[s].checkpointId.n \in CheckpointNumbers
        /\ TRUE \in RedeemOutcomes(con[s].checkpointId.n)
        /\ con[s].alreadyRedeemed
        /\ con[s].pc = "done"
        /\ con[s].result.ok

\* C7: in publish the ledger call is made only after upload returned a URI
\* and writes exactly the stateCommitment, ciphertext hash and URI computed
\* in the invocation; a failed serialization makes no upload and no ledger
\* call, a failed upload no ledger call.
C7_PublishFeedsForward ==
    /\ pub.pc = "upload" => pub.calls = <<>> /\ Len(checkpoints) = pub.base
    /\ pub.pc = "publishCheckpoint" =>
           /\ pub.calls = <<"upload">>
           /\ pub.uri \in DOMAIN store
           /\ store[pub.uri] = pub.sealed.ciphertext
           /\ Len(checkpoints) = pub.base
    /\ (\E i \in DOMAIN pub.calls : pub.calls[i] = "publishCheckpoint") =>
           /\ pub.calls = <<"upload", "publishCheckpoint">>
           /\ pub.uri \in DOMAIN store
    /\ (pub.pc = "done" /\ pub.result.ok /\ ~pub.direct) =>
           /\ pub.result.val.n = pub.base + 1
           /\ pub.result.val.n \in DOMAIN checkpoints
           /\ checkpoints[pub.result.val.n].stateCommitment = pub.sealed.stateCommitment
           /\ checkpoints[pub.result.val.n].ciphertextHash = pub.sealed.contentHash
           /\ checkpoints[pub.result.val.n].ciphertextUri = pub.uri
    /\ (pub.pc = "done" /\ ~pub.result.ok) => Len(checkpoints) = pub.base
    /\ (pub.pc # "idle" /\ assertValidCapsule(pub.capsule) # "") =>
           pub.pc = "done" /\ ~pub.result.ok /\ pub.calls = <<>>
    /\ (pub.pc = "done" /\ pub.result.err = "upload failed") =>
           pub.calls = <<"upload">>

\* the registry client's publish wrote its checkpoint
C7_Witness ==
    /\ pub.pc = "done"
    /\ pub.result.ok
    /\ ~pub.direct
    /\ pub.client = "registry"
    /\ pub.calls = <<"upload", "publishCheckpoint">>

\* C8: a SealedCapsule produced by seal or by publish for capsule C has
\* stateCommitment = hash(canonicalize(C)) and contentHash = hash(ciphertext),
\* and the checkpoint record publish wrote carries the same two values for
\* the ciphertext stored at its URI.
C8_CommitmentsMatch ==
    /\ e2e.sealed # NoSealed =>
           /\ e2e.sealed.stateCommitment = hashBytes(canonicalBytes(e2e.capsule))
           /\ e2e.sealed.contentHash = hashBytes(e2e.sealed.ciphertext)
    /\ pub.sealed # NoSealed =>
           /\ pub.sealed.stateCommitment = hashBytes(canonicalBytes(pub.capsule))
           /\ pub.sealed.contentHash = hashBytes(pub.sealed.ciphertext)
    /\ (pub.pc = "done" /\ pub.result.ok /\ ~pub.direct) =>
           LET r == checkpoints[pub.result.val.n]
           IN  /\ r.stateCommitment = hashBytes(canonicalBytes(pub.capsule))
               /\ r.ciphertextUri \in DOMAIN store
               /\ r.ciphertextHash = hashBytes(store[r.ciphertextUri])

\* seal has sealed a capsule whose keys were inserted out of order, and
\* publish has written a checkpoint
C8_Witness ==
    /\ e2e.sealed # NoSealed
    /\ Len(e2e.capsule.payload) = 2
    /\ e2e.capsule.payload[1][1] > e2e.capsule.payload[2][1]
    /\ pub.pc = "done"
    /\ pub.result.ok
    /\ pub.capsule = UnsortedCapsule

\* C9: for every valid capsule C and recipient key pair, the pipeline seal,
\* upload, storeKey, fulfillRedemption, fetchEnvelope, unwrapKey, download,
\* verifyAndDecrypt ends with a capsule equal to C, with the same canonical
\* bytes.
C9_EndToEndRoundTrip ==
    (e2e.pc = "done" /\ assertValidCapsule(e2e.capsule) = "") =>
        /\ e2e.result.ok
        /\ SameCapsule(e2e.result.val, e2e.capsule)
        /\ serializeCapsule(e2e.result.val) = serializeCapsule(e2e.capsule)
        /\ e2e.key = e2e.sealed.encryptionKey

\* the pipeline has run to its end for a capsule whose keys were inserted
\* out of order
C9_Witness ==
    /\ e2e.pc = "done"
    /\ e2e.result.ok
    /\ Len(e2e.capsule.payload) = 2
    /\ e2e.capsule.payload[1][1] > e2e.capsule.payload[2][1]
    /\ e2e.recipient = OtherSecretKey

\* C10: a step of consume taken before its redeem call (the signer lookup,
\* hasRedeemed, the pre-flight fetchEnvelope, a failure or a cancellation
\* there) leaves the ledger, the storage and the key-delivery indexes as
\* they were.
C10_PreRedeemWritesNothing ==
    [][\A s \in Slots :
           (con'[s] # con[s]
              /\ con[s].pc \in {"idle", "done", "hasRedeemed", "preflight"})
               => UNCHANGED world]_vars

\* consume was cancelled during its pre-flight fetch, with a checkpoint
\* published and an envelope index shared
C10_Witness ==
    \E s \in Slots :
        /\ con[s].pc = "done"
        /\ con[s].result.err = "cancelled"
        /\ con[s].calls = <<Call("hasRedeemed", TRUE)>>
        /\ checkpoints # <<>>
        /\ indexUri # 0

CallsTo(c, op) == {i \in DOMAIN c.calls : c.calls[i].op = op}

\* C11: within one invocation of consume or publish each collaborator
\* operation is called at most once, and a call that failed is the last call
\* of the invocation, which has ended in an error without running a later
\* step.
C11_NoInternalRetry ==
    /\ \A s \in Slots :
           LET c == con[s]
           IN  /\ \A op \in {"hasRedeemed", "fetchEnvelope", "redeem",
                              "getCheckpoint", "download"} :
                      Cardinality(CallsTo(c, op)) <= 1
               /\ \A i \in DOMAIN c.calls :
                      /\ c.calls[i].op \in {"hasRedeemed", "fetchEnvelope", "redeem",
                                            "getCheckpoint", "download"}
                      /\ ~c.calls[i].ok =>
                             /\ i = Len(c.calls)
                             /\ c.pc = "done"
                             /\ ~c.result.ok
                             /\ c.steps = <<>>
    /\ \A i, j \in DOMAIN pub.calls : pub.calls[i] = pub.calls[j] => i = j
    /\ \A i \in DOMAIN pub.calls : pub.calls[i] \in {"upload", "publishCheckpoint"}
    /\ (pub.pc = "done" /\ pub.result.err = "upload failed") =>
           /\ pub.calls = <<"upload">>
           /\ pub.uri = 0
    /\ (pub.pc = "done" /\ pub.result.err = "publish transaction failed") =>
           /\ pub.calls = <<"upload", "publishCheckpoint">>
           /\ Len(checkpoints) = pub.base

\* consume ended on a call that failed after its redeem call had succeeded
C11_Witness ==
    \E s \in Slots :
        /\ con[s].pc = "done"
        /\ Len(con[s].calls) >= 4
        /\ con[s].calls[3] = Call("redeem", TRUE)
        /\ ~con[s].calls[Len(con[s].calls)].ok

\* C12: when a collaborator call of consume produced no result, the
\* invocation has aborted, and its error is the call-failure error exactly
\* when the call itself was rejected, so that an absent or invalid result
\* and a failed call are told apart, the pre-flight fetchEnvelope included.
C12_ErrorTellsCause ==
    \A s \in Slots :
        LET c == con[s]
        IN  c.cause # "" =>
                /\ c.pc = "done"
                /\ ~c.result.ok
                /\ (c.cause = "failed") <=> (c.result.err = CallFailedError)

\* the same for every call but the pre-flight fetchEnvelope
C12_ErrorTellsCauseAfterPreflight ==
    \A s \in Slots :
        LET c == con[s]
        IN  (c.cause # "" /\ ~PreflightFailed(c)) =>
                /\ c.pc = "done"
                /\ ~c.result.ok
                /\ (c.cause = "failed") <=> (c.result.err = CallFailedError)

\* the links of s that do not hold, as indices from 0
BrokenLinks(s) ==
    {i \in 1..(Len(s) - 1) :
        toLowerCase(s[i + 1].predecessorId) # toLowerCase(s[i].checkpointId)}

\* C13: verifyCheckpointLineage returns ok for the empty sequence; otherwise
\* it fails with the genesis error if the first predecessorId is not the
\* zero sentinel, whatever the links are; otherwise it fails with the
\* broken-lineage error naming the smallest index whose predecessorId
\* differs, ignoring case, from the previous checkpointId; otherwise it
\* returns ok.
C13_LineageVerdict ==
    verified.pc = "done" =>
        LET s == verified.checkpoints
            r == verified.result
        IN  IF s = <<>> THEN r.ok
            ELSE IF toLowerCase(s[1].predecessorId) # EmptyId
            THEN ~r.ok /\ r.err = "first checkpoint predecessor must be zero"
            ELSE IF BrokenLinks(s) # {}
            THEN /\ ~r.ok
                 /\ r.err = "checkpoint lineage broken"
                 /\ r.index \in BrokenLinks(s)
                 /\ \A i \in BrokenLinks(s) : r.index <= i
            ELSE r.ok

\* a three-record sequence with both links broken, reported at index 1
C13_Witness ==
    /\ verified.pc = "done"
    /\ Len(verified.checkpoints) = 3
    /\ BrokenLinks(verified.checkpoints) = {1, 2}
    /\ verified.result.err = "checkpoint lineage broken"
    /\ verified.result.index = 1

\* C14: a sequence verifyCheckpointLineage accepts has no checkpointId at two
\* different positions.
C14_AcceptedIsAcyclic ==
    (verified.pc = "done" /\ verified.result.ok) =>
        \A i, j \in DOMAIN verified.checkpoints :
            toLowerCase(verified.checkpoints[i].checkpointId)
              = toLowerCase(verified.checkpoints[j].checkpointId) => i = j

\* following predecessorId in the record source from id comes back to an
\* identifier already passed (seen: the identifiers passed so far)
RECURSIVE ChainCyclic(_, _, _)
ChainCyclic(source, id, seen) ==
    IF id = EmptyId \/ ~getCheckpoint(source, id).found THEN FALSE
    ELSE IF id.n \in seen THEN TRUE
    ELSE ChainCyclic(source, getCheckpoint(source, id).predecessorId,
                     seen \cup {id.n})

\* the identifiers of the records collected, letter case ignored
LineageIdsOf(w) == {toLowerCase(w.lineage[i].checkpointId) : i \in DOMAIN w.lineage}

C16_WalkTerminates ==
    /\ [](walk.lookups <= walk.maxDepth)
    /\ (walk.pc = "loop") ~> (walk.pc = "done")

\* the walk was cut by maxDepth with more of the chain to go
C16_Witness ==
    /\ walk.pc = "done"
    /\ walk.result.ok
    /\ walk.maxDepth >= 2
    /\ walk.lookups = walk.maxDepth
    /\ walk.currentId # EmptyId

\* C17: whenever getLineage returns normally, the result starts with the
\* requested checkpoint, each record's predecessorId is the next record's
\* checkpointId, and the last record's predecessorId is the zero sentinel
\* (for the zero sentinel itself as the start, the result is empty).
C17_ReturnsFullLineage ==
    (walk.pc = "done" /\ walk.result.ok) =>
        IF walk.checkpointId = EmptyId THEN walk.lineage = <<>>
        ELSE /\ walk.lineage # <<>>
             /\ walk.lineage[1].checkpointId = walk.checkpointId
             /\ \A i \in 1..(Len(walk.lineage) - 1) :
                    walk.lineage[i].predecessorId = walk.lineage[i + 1].checkpointId
             /\ walk.lineage[Len(walk.lineage)].predecessorId = EmptyId

\* the digest the checked function has to compute for its input
DigestOfChecked ==
    IF checked.fn = "verifyStateCommitment"
    THEN hashBytes(canonicalBytes(checked.capsule))
    ELSE hashBytes(checked.ciphertext)

\* C18: verifyStateCommitment and verifyCiphertextHash never return false:
\* for an input whose digest can be computed they return true exactly when
\* the computed digest equals the expected one ignoring letter case, and
\* otherwise throw the mismatch error carrying the computed and the expected
\* digest as given.
C18_VerifyThrowsOnMismatch ==
    (checked.pc = "done"
       /\ (checked.fn = "verifyStateCommitment"
             => assertValidCapsule(checked.capsule) = "")) =>
        LET r == checked.result
            same == toLowerCase(DigestOfChecked) = toLowerCase(r.expected)
        IN  /\ r.ok <=> same
            /\ r.ok => r.val = TRUE
            /\ ~r.ok =>
                   /\ r.err = IF checked.fn = "verifyStateCommitment"
                              THEN "state commitment mismatch"
                              ELSE "ciphertext hash mismatch"
                   /\ r.computed = DigestOfChecked

\* verifyStateCommitment returned true for an expected digest written in
\* upper case
C18_Witness ==
    /\ checked.pc = "done"
    /\ checked.fn = "verifyStateCommitment"
    /\ checked.result.ok
    /\ checked.result.expected.upper
    /\ Len(checked.capsule.payload) = 2

(***************************************************************************)
(* C19: every envelope fulfillRedemption delivers for a checkpoint carries *)
(* the identifier it was called with and wraps the key the store held for  *)
(* that checkpoint; every envelope fetchEnvelope returns for a checkpoint  *)
(* is one delivered for it and carries the requested identifier.           *)
(***************************************************************************)
\* the envelope wraps, for the consumer, the key held for its checkpoint
WrapsHeldKey(d) ==
    /\ unwrapKey(d.envelope, ConsumerSecretKey) = Ok(d.held)
    /\ <<toLowerCase(d.checkpointId), d.held>> \in written

\* the delivery a fetched envelope comes from: same token, checkpoint and
\* consumer up to letter case, same wrapped key, nonce and sender key
DeliveredFor(f) ==
    {d \in delivered :
        /\ toLowerCase(d.tokenAddress) = toLowerCase(f.tokenAddress)
        /\ toLowerCase(d.checkpointId) = toLowerCase(f.checkpointId)
        /\ toLowerCase(d.consumerAddress) = toLowerCase(f.consumerAddress)
        /\ d.envelope.wrappedKey = f.result.val.wrappedKey
        /\ d.envelope.nonce = f.result.val.nonce
        /\ d.envelope.senderPublicKey = f.result.val.senderPublicKey}

\* C19 as stated: delivered and fetched envelopes carry exactly the
\* identifier of the call and wrap the key stored for that checkpoint
C19_EnvelopeCarriesRequestedId ==
    /\ \A d \in delivered :
           d.envelope.checkpointId = d.checkpointId /\ WrapsHeldKey(d)
    /\ (fetched.pc = "done" /\ fetched.result.ok) =>
           /\ fetched.result.val.checkpointId = fetched.checkpointId
           /\ DeliveredFor(fetched) # {}

\* C19, amended: a delivered envelope carries the identifier of the call and
\* wraps the key held for it; a fetched envelope is one delivered for the
\* requested checkpoint and carries its identifier up to letter case
C19_EnvelopeMatchesCheckpoint ==
    /\ \A d \in delivered :
           d.envelope.checkpointId = d.checkpointId /\ WrapsHeldKey(d)
    /\ (fetched.pc = "done" /\ fetched.result.ok) =>
           /\ toLowerCase(fetched.result.val.checkpointId)
                 = toLowerCase(fetched.checkpointId)
           /\ DeliveredFor(fetched) # {}
           /\ mode = "onchain" =>
                 fetched.result.val.checkpointId = fetched.checkpointId
           /\ mode = "storage" =>
                 \E d \in DeliveredFor(fetched) :
                     fetched.result.val.checkpointId = d.checkpointId

\* an envelope delivered under the upper-case spelling is fetched under the
\* lower-case one while the store holds another key for another checkpoint
C19_Witness ==
    /\ fetched.pc = "done"
    /\ fetched.result.ok
    /\ fetched.result.val.checkpointId # fetched.checkpointId
    /\ \E d \in DeliveredFor(fetched), e \in keys :
           e[1] # toLowerCase(d.checkpointId) /\ e[2] # d.held

(***************************************************************************)
(* C20: in the publisher key store a key is written once per checkpoint:   *)
(* of all the keys storeKey and importKeys were given for one normalized   *)
(* identifier, none differs from the first.                                *)
(***************************************************************************)
C20_KeyWrittenOnce ==
    \A e1 \in written, e2 \in written : e1[1] = e2[1] => e1[2] = e2[2]

(***************************************************************************)
(* C21: a fulfillRedemption call that fails for a missing key or for a     *)
(* consumer public key that is not 32 bytes makes no storeEnvelope call:   *)
(* the storage, the delivery index and the contract's envelopes are as     *)
(* they were before the call.                                              *)
(***************************************************************************)
FulfillRejections ==
    {"no key stored for checkpoint", "consumer public key must be 32 bytes"}

C21_RejectedFulfillStoresNothing ==
    [][(nFulfills' = nFulfills + 1 /\ fulfilled'.err \in FulfillRejections)
          => UNCHANGED <<store, pubIndex, chainEnvelopes, delivered>>]_vars

\* a call for a checkpoint whose key is stored was refused for the length
\* of the public key
C21_Witness ==
    /\ nFulfills >= 1
    /\ fulfilled.err = "consumer public key must be 32 bytes"
    /\ keys # {}

(***************************************************************************)
(* C22: the envelope identifier does not depend on letter case, so an      *)
(* envelope stored under (token, checkpoint, consumer) is found by         *)
(* fetchEnvelope of the same StorageKeyDelivery under every other          *)
(* spelling of the three identifiers.                                      *)
(***************************************************************************)
Casings(id) == {toLowerCase(id), toUpperCase(id)}

C22_FoundUnderAnyCasing ==
    mode = "storage" =>
        \A d \in delivered :
            \A t \in Casings(d.tokenAddress), c \in Casings(d.checkpointId),
               u \in Casings(d.consumerAddress) :
                /\ computeEnvelopeId(t, c, u)
                     = computeEnvelopeId(d.tokenAddress, d.checkpointId,
                                         d.consumerAddress)
                /\ storageFetchEnvelope(pubIndex, store, t, c, u).ok
                /\ toLowerCase(storageFetchEnvelope(pubIndex, store, t, c, u)
                                   .val.checkpointId)
                     = toLowerCase(d.checkpointId)

\* an envelope stored under an upper-case checkpoint identifier, fetched
\* with the lower-case one and the other two in upper case
C22_Witness ==
    /\ mode = "storage"
    /\ \E d \in delivered :
           /\ d.checkpointId.upper
           /\ storageFetchEnvelope(pubIndex, store, toUpperCase(d.tokenAddress),
                                   toLowerCase(d.checkpointId),
                                   toUpperCase(d.consumerAddress)).ok

(***************************************************************************)
(* C23: two triples that differ in a component after lower-casing are      *)
(* hashed from different pre-image strings.                                *)
(***************************************************************************)
LowerTriple(triple) ==
    <<lowerString(triple[1]), lowerString(triple[2]), lowerString(triple[3])>>

HasColon(triple) ==
    \E k \in 1..3 : \E i \in DOMAIN triple[k] : triple[k][i] = ":"

\* C23 as stated: for any two triples
C23_DifferentTriplesDifferentInput ==
    applied.fn = "computeEnvelopeId" =>
        \A other \in IdTriples :
            LowerTriple(other) # LowerTriple(applied.args)
                => envelopeIdInput(other[1], other[2], other[3]) # applied.result

\* C23, amended: for any two triples whose components hold no ':'
C23_ColonFreeTriplesDifferentInput ==
    (applied.fn = "computeEnvelopeId" /\ ~HasColon(applied.args)) =>
        \A other \in IdTriples :
            (~HasColon(other) /\ LowerTriple(other) # LowerTriple(applied.args))
                => envelopeIdInput(other[1], other[2], other[3]) # applied.result

\* the identifier of a triple spelled with upper-case letters was computed,
\* and a triple with the same characters split differently exists
C23_Witness ==
    /\ applied.fn = "computeEnvelopeId"
    /\ ~HasColon(applied.args)
    /\ LowerTriple(applied.args) # applied.args
    /\ \E other \in IdTriples :
           /\ ~HasColon(other)
           /\ LowerTriple(other) # LowerTriple(applied.args)
           /\ envelopeIdInputUnseparated(other[1], other[2], other[3])
                = envelopeIdInputUnseparated(applied.args[1], applied.args[2],
                                             applied.args[3])

(***************************************************************************)
(* C24: deserializeEnvelope(serializeEnvelope(e)) succeeds and equals e    *)
(* field for field.                                                        *)
(***************************************************************************)
\* C24 as stated: for every envelope
C24_EnvelopeRoundTrips ==
    applied.fn = "roundTrip" => applied.result = Ok(applied.args)

\* C24, amended: for every envelope whose checkpointId is not the empty
\* string; for the empty one deserializeEnvelope reports missing fields
C24_PopulatedEnvelopeRoundTrips ==
    applied.fn = "roundTrip" =>
        IF applied.args.checkpointId # EmptyId
        THEN applied.result = Ok(applied.args)
        ELSE /\ ~applied.result.ok
             /\ applied.result.err
                  = "invalid key envelope - missing required fields"

\* an envelope with an upper-case identifier, an empty byte array and a
\* byte under 16 came back
C24_Witness ==
    /\ applied.fn = "roundTrip"
    /\ applied.result.ok
    /\ applied.args.checkpointId.upper
    /\ applied.args.nonce = <<>>
    /\ applied.args.wrappedKey = <<10, 255>>

(***************************************************************************)
(* C25: deserializeEnvelope fails when one of the four fields is absent    *)
(* or one of the three byte fields is not valid hex.                       *)
(***************************************************************************)
IsHexString(hex) == \A i \in DOMAIN hex.digits : hex.digits[i] # NotHex

MalformedEnvelope(data) ==
    \/ data.kind # "envelope"
    \/ data.env.checkpointId = EmptyId
    \/ \E f \in {data.env.wrappedKey, data.env.nonce, data.env.senderPublicKey} :
           f = EmptyHex \/ ~IsHexString(f)

C25_MalformedEnvelopeRejected ==
    (applied.fn = "deserializeEnvelope" /\ MalformedEnvelope(applied.args))
        => ~applied.result.ok

(***************************************************************************)
(* C26: a consumer whose index is a published index fetches every         *)
(* envelope stored before that publishIndex call, equal to what was        *)
(* stored; a loadIndex call leaves the consumer with every entry of the    *)
(* index it loaded and never removes an entry.                             *)
(***************************************************************************)
FetchedByConsumer(d) ==
    storageFetchEnvelope(conIndex, store, d.tokenAddress, d.checkpointId,
                         d.consumerAddress)

\* no later storeEnvelope call before the index at uri used the same triple
LastStoredBefore(d, uri) ==
    \A d2 \in delivered :
        (d.uri < d2.uri /\ d2.uri < uri)
            => computeEnvelopeId(d2.tokenAddress, d2.checkpointId,
                                 d2.consumerAddress)
                 # computeEnvelopeId(d.tokenAddress, d.checkpointId,
                                     d.consumerAddress)

NotFoundErrors == {"key envelope not found", "on-chain key envelope not found"}

\* no envelope was stored under the triple (token contract, c, consumer)
NeverStored(c) ==
    \A d \in delivered : toLowerCase(d.checkpointId) # toLowerCase(c)

NeverStoredNotFound ==
    \A c \in KeyStoreIds :
        NeverStored(c) =>
            /\ ~providerFetchEnvelope(TokenAddress, c, ConsumerAddress).ok
            /\ providerFetchEnvelope(TokenAddress, c, ConsumerAddress).err
                 \in NotFoundErrors

\* the storeEnvelope call of this step, if it stored an envelope
StoredNow == delivered' \ delivered
FetchedNext(d) ==
    providerFetchEnvelope(d.tokenAddress, d.checkpointId, d.consumerAddress)'

EncryptionsOf(op) == {i \in DOMAIN Encryptions : Encryptions[i].op = op}

\* C28: in any sequence of seal, sealAndUpload and publish operations each
\* operation passes the content key it drew, and returns, to one encrypt
\* call; no two encrypt calls share a content key, so no (key, IV) pair is
\* used for two encryptions.
C28_ContentKeySingleUse ==
    /\ \A i \in DOMAIN Encryptions :
          Encryptions[i].encryptionKey = Encryptions[i].key
    /\ \A i, j \in DOMAIN Encryptions :
          i # j =>
             /\ Encryptions[i].key # Encryptions[j].key
             /\ <<Encryptions[i].key, Encryptions[i].iv>>
                  # <<Encryptions[j].key, Encryptions[j].iv>>

C28_Witness ==
    /\ EncryptionsOf("seal") # {}
    /\ EncryptionsOf("sealAndUpload") # {}
    /\ EncryptionsOf("publish") # {}
    /\ pub.pc = "done"
    /\ pub.result.ok

DecryptErrors ==
    {"decryption key must be 32 bytes", "sealed data too short",
     "AES-256-GCM decryption failed"}

\* C29: decrypt fails in three distinct ways and in no other: with the
\* key-length error when the key is not 32 bytes; for a 32-byte key, with the
\* too-short error when the input is under 28 bytes; for a 32-byte key and an
\* input of 28 bytes or more, with the authentication error when the input
\* is not an encryption under that key (another key, altered bytes); and it
\* succeeds otherwise.
C29_DecryptFailureKinds ==
    applied.fn = "decrypt" =>
        LET sealed == applied.args[1]
            key == applied.args[2]
            r == applied.result
            authentic == sealed.kind = "sealed" /\ sealed.key = key
        IN  /\ key.len # 32 =>
                  ~r.ok /\ r.err = "decryption key must be 32 bytes"
            /\ (key.len = 32 /\ ByteLength(sealed) < 28) =>
                  ~r.ok /\ r.err = "sealed data too short"
            /\ (key.len = 32 /\ ByteLength(sealed) >= 28 /\ ~authentic) =>
                  ~r.ok /\ r.err = "AES-256-GCM decryption failed"
            /\ ~r.ok => r.err \in DecryptErrors
            /\ r.ok => key.len = 32 /\ ByteLength(sealed) >= 28 /\ authentic

C29_Witness ==
    /\ applied.fn = "decrypt"
    /\ applied.args[1].kind = "sealed"
    /\ applied.args[1].key \in CipherKeys \ {applied.args[2]}
    /\ applied.args[2] \in CipherKeys
    /\ ~applied.result.ok
    /\ applied.result.err = "AES-256-GCM decryption failed"

\* C30: for every plaintext, the empty one included, and every 32-byte key,
\* two encryptions of the plaintext under the key give different outputs
\* and decrypt gives the plaintext back from each of them.
C30_EncryptDecryptRoundTrip ==
    (applied.fn = "encryptTwice" /\ applied.args[2].len = 32) =>
        LET plaintext == applied.args[1]
        IN  /\ applied.result[1].ok
            /\ applied.result[2].ok
            /\ applied.result[1].val # applied.result[2].val
            /\ applied.decrypted[1] = Ok(plaintext)
            /\ applied.decrypted[2] = Ok(plaintext)

C30_Witness ==
    /\ applied.fn = "encryptTwice"
    /\ applied.args[1] = JsonBytes("", <<>>)
    /\ applied.args[2] \in CipherKeys
    /\ applied.decrypted[1] = Ok(JsonBytes("", <<>>))
    /\ ByteLength(applied.result[1].val) = 28

\* C31: a key wrapped for a recipient is returned by unwrapKey with that
\* recipient's secret key, and unwrapKey with the secret key of anyone else
\* fails with the unwrap error.
C31_WrapUnwrapRoundTrip ==
    applied.fn = "wrapUnwrap" =>
        LET contentKey == applied.args[1]
            recipient == applied.args[2]
            opener == applied.args[4]
        IN  /\ opener = recipient => applied.result = Ok(contentKey)
            /\ opener # recipient =>
                  /\ ~applied.result.ok
                  /\ applied.result.err = "NaCl box decryption failed"

C31_Witness ==
    /\ applied.fn = "wrapUnwrap"
    /\ applied.args[4] = applied.args[2]
    /\ applied.args[3] # applied.args[2]
    /\ applied.result = Ok(applied.args[1])

\* C32: every failure of unwrapKey is the one unwrap error, whatever its
\* cause: another recipient key, a modified wrappedKey, a modified nonce, a
\* modified or malformed senderPublicKey.
C32_UnwrapFailureOpaque ==
    (applied.fn = "unwrapKey" /\ ~applied.result.ok) =>
        applied.result.err = "NaCl box decryption failed"

\* C33: seal and both publish flows set metadataHash to the all-zero digest
\* if and only if no metadata value was supplied, and to the hash of the
\* canonical form of the value for every supplied value.
C33_MetadataHashZeroIffAbsent ==
    (applied.fn \in {"seal", "token", "registry"} /\ applied.result.ok) =>
        LET metadata == applied.args[2]
            metadataHash == applied.result.val.metadataHash
        IN  /\ metadataHash = ZERO_BYTES32 <=> ~metadata.supplied
            /\ metadata.supplied =>
                  metadataHash = hashBytes(canonicalBytes(metadata.value))

\* C34: two values that are equal up to the order of object keys, at any
\* nesting depth, have the same canonical bytes, the same state commitment
\* and the same metadata hash.
C34_CanonicalOrderIndependent ==
    applied.fn = "canonical" =>
        /\ applied.bytes[1] = applied.bytes[2]
        /\ applied.commitments[1] = applied.commitments[2]
        /\ applied.metadataHashes[1] = applied.metadataHashes[2]

C34_Witness ==
    /\ applied.fn = "canonical"
    /\ applied.args[1] # applied.args[2]
    /\ Len(applied.args[1][1]) = 3
    /\ Len(applied.args[2][2]) = 3
    /\ applied.args[1][1][2] # applied.args[2][2][2]
    /\ applied.metadataHashes[1] = applied.metadataHashes[2]

\* invocation t issues its redeem call in this step while invocation s, for
\* the same checkpoint, is still running and has issued its own
SecondOverlappingRedeem(s, t) ==
    /\ s # t
    /\ con[s].client = "token"
    /\ con[t].client = "token"
    /\ con[s].checkpointId.n = con[t].checkpointId.n
    /\ InFlight(con[s])
    /\ HasCall(con[s], "redeem")
    /\ con[t].pc = "redeem"
    /\ ~HasCall(con[t], "redeem")
    /\ HasCall(con'[t], "redeem")

\* C35: of two overlapping consume invocations of one signer for one
\* checkpoint at most one issues the redeem call: none issues redeem while
\* the other, having issued it, is still running.
C35_OverlappingConsumeRedeemsOnce ==
    [][\A s, t \in Slots : ~SecondOverlappingRedeem(s, t)]_vars

RetryDone ==
    /\ applied # IdleApplied
    /\ applied.fn = "withRetry"
    /\ applied.pc = "done"

\* what withRetry promises of a finished call that made its attempts: at
\* most maxAttempts of them; only the last can have succeeded or have
\* thrown a non-retryable error; the result is that of the last attempt;
\* attempts were given up only at maxAttempts; between attempt i and the
\* next the wait was min(1000 * 2^(i-1), 30000) ms
RetryContract ==
    LET n == Len(applied.outcomes)
    IN  /\ n <= applied.maxAttempts
        /\ \A i \in 1..n :
               (applied.outcomes[i].ok \/ isNonRetryable(applied.outcomes[i].err))
                   => i = n
        /\ n >= 1 => applied.result = applied.outcomes[n]
        /\ (/\ n >= 1
            /\ ~applied.outcomes[n].ok
            /\ ~isNonRetryable(applied.outcomes[n].err)) =>
               n = applied.maxAttempts
        /\ Len(applied.delays) = IF n = 0 THEN 0 ELSE n - 1
        /\ \A i \in DOMAIN applied.delays :
               /\ applied.delays[i] \in {1000 * 2 ^ (i - 1), 30000}
               /\ applied.delays[i] <= 1000 * 2 ^ (i - 1)
               /\ applied.delays[i] <= 30000

\* C39 (as amended): for maxAttempts >= 1 withRetry invokes fn at least
\* once and at most maxAttempts times, returns the result of the first
\* successful attempt, stops at once on a non-retryable error, waits
\* min(1000 * 2^(attempt-1), 30000) ms between attempts and after the last
\* failed attempt throws that attempt's error; for maxAttempts <= 0 it
\* never invokes fn and throws undefined.
C39_RetryBounded ==
    RetryDone =>
        /\ RetryContract
        /\ applied.maxAttempts >= 1 => Len(applied.outcomes) >= 1
        /\ applied.maxAttempts <= 0 =>
               /\ applied.outcomes = <<>>
               /\ applied.result = Err(NoAttemptError, 0)

\* C39 (as stated): withRetry invokes fn at least once and at most
\* maxAttempts times, whatever maxAttempts is, and the rest.
C39_RetryAtLeastOnce ==
    RetryDone =>
        /\ RetryContract
        /\ Len(applied.outcomes) >= 1

C39_Witness ==
    /\ RetryDone
    /\ applied.maxAttempts = MaxAttempts
    /\ Len(applied.outcomes) = MaxAttempts
    /\ applied.delays[MaxAttempts - 1] = 30000
    /\ applied.result = Err("network error", 0)
    /\ applied.outcomes[1] = Err("timeout", 0)

\* C40: verifyAndDecrypt, and unseal given both commitments, compare the
\* ciphertext hash before any decryption and the state commitment after
\* deserialization: a ciphertext whose hash is not the expected one is
\* rejected with the ciphertext-mismatch error whatever the key, and decrypt
\* is not called on it.
C40_HashCheckedBeforeDecrypt ==
    (applied.fn \in {"verifyAndDecrypt", "unseal"}
        /\ applied.supplied = <<TRUE, TRUE>>) =>
        LET ciphertext == applied.args[1]
            mismatch == toLowerCase(computeCiphertextHash(ciphertext))
                            # toLowerCase(applied.args[4])
        IN  /\ mismatch =>
                  /\ ~applied.result.ok
                  /\ applied.result.err = "ciphertext hash mismatch"
                  /\ applied.steps = <<"verifyCiphertextHash">>
            /\ IsPrefix(applied.steps,
                        <<"verifyCiphertextHash", "decrypt",
                          "deserializeCapsule", "verifyStateCommitment">>)
            /\ applied.result.err = "state commitment mismatch" =>
                  Len(applied.steps) = 4

C40_Witness ==
    /\ applied.fn = "verifyAndDecrypt"
    /\ applied.args[1] # UnsealCiphertext
    /\ applied.args[1].kind = "sealed"
    /\ applied.args[2] = applied.args[1].key
    /\ applied.args[4] = computeCiphertextHash(UnsealCiphertext)
    /\ applied.result.err = "ciphertext hash mismatch"
    /\ applied.steps = <<"verifyCiphertextHash">>

(***************************************************************************)
(* C36: in the auto-fulfiller's polling loop lastBlock only advances after *)
(* the full batch succeeded: when pollOnce moves lastBlock, every Redeemed *)
(* event of the range it moves over was handled without a delivery         *)
(* failure, and the loop was not left by the shutdown break.               *)
(***************************************************************************)
PassedOver(from, to) ==
    {ev \in fulfiller.events : ev.block > from /\ ev.block <= to}

C36_LastBlockAdvancesAfterFullBatch ==
    [][(fulfiller.pc = "batch" /\ fulfiller'.lastBlock # fulfiller.lastBlock)
          => /\ ~fulfiller'.broke
             /\ \A ev \in PassedOver(fulfiller.lastBlock, fulfiller'.lastBlock) :
                    ev \in fulfiller'.handled /\ ev \notin fulfiller'.failed]_vars

(***************************************************************************)
(* C37: the auto-fulfiller never sends a deliverKeyEnvelope transaction    *)
(* for a pair whose envelope is already on chain, and over catch-up, live  *)
(* polling and retries it sends at most one transaction per pair.          *)
(***************************************************************************)
C37_OneDeliveryPerPair ==
    \A i \in DOMAIN fulfiller.txs :
        /\ ~fulfiller.txs[i].onChain
        /\ \A j \in DOMAIN fulfiller.txs :
               fulfiller.txs[j].pair = fulfiller.txs[i].pair => j = i

(***************************************************************************)
(* C38: with CREATED_AT_BLOCK set and catch-up run, no block lies after    *)
(* the catch-up range and at or before the block live polling starts       *)
(* after, and while the script waits for the next poll every Redeemed      *)
(* event from CREATED_AT_BLOCK up to lastBlock was passed to               *)
(* handleRedemption.                                                       *)
(***************************************************************************)
C38_NoGapAfterCatchUp ==
    (/\ fulfiller.pc = "poll"
     /\ ~fulfiller.shutdownRequested
     /\ fulfiller.createdAt >= 1
     /\ fulfiller.createdAt <= fulfiller.catchUpTo)
        => /\ fulfiller.liveFrom <= fulfiller.catchUpTo
           /\ \A ev \in PassedOver(fulfiller.createdAt - 1, fulfiller.lastBlock) :
                  ev \in fulfiller.handled
====
